---------------------------- MODULE Spec2Model ----------------------------
(***************************************************************************)
(* Model of the lead-generation pipeline:                                  *)
(*   - EmailReviewLayer.review_emails_batch      (src/human_layer.py)      *)
(*   - ConvexiaCRMAgent._generate_and_review_emails_sequential             *)
(*     with EmailReviewLayer.review_email / final_checklist (src/agent.py) *)
(*   - ConvexiaCRMAgent._conduct_research with ResearchLayer               *)
(*   - the functions on lists of company dicts: _deduplicate_companies,    *)
(*     utils.deduplicate_companies, the filter of _synthesize_companies    *)
(*   - Company and its company_name validator    (src/config/models.py)    *)
(*   - ConvexiaCRMAgent._discover_companies                                *)
(*   - ConvexiaCRMAgent._enrich_with_contacts                              *)
(*   - the calls of external APIs: retry_with_backoff, the rate limiter    *)
(*     and the functions that send the requests                            *)
(*   - ClaudeClient.chat_json and BaseLLMClient.chat_json                  *)
(*   - ConvexiaCRMAgent.run with the generation loop of the batch mode     *)
(*   - the batch and the sequential review given the same emails and the   *)
(*     same decisions (SpecPolicies)                                       *)
(*   - the cache of utils.cached and of ClaudeClient.chat (SpecCache)      *)
(*   - utils.normalize_phase (SpecPhase)                                   *)
(* Each stage is a state machine of its own (SpecBatch, SpecSeq,           *)
(* SpecResearch, SpecLists, SpecNames, SpecDiscovery, SpecEnrich,          *)
(* SpecCalls, SpecJson, SpecRun); the variables of the other stages stay   *)
(* at their idle values.                                                   *)
(***************************************************************************)
EXTENDS Integers, Sequences, FiniteSets, TLC

VARIABLES
    \* ---- review_emails_batch ----
    all_emails,      \* the list under review (records, as the dicts of the code)
    current_idx,     \* 0-based position in all_emails
    action,          \* the menu label the operator selected last (characters)
    new_subject,     \* the subject the operator typed at the last edit
    new_body,        \* the body the operator typed at the last edit
    approved_emails, \* the list computed after the loop
    proceed,         \* the answer at the final confirmation: "none", "yes", "no"
    result,          \* the value returned by review_emails_batch
    bpc,             \* "idle", "start", "loop", "gate", "returned"
    nactions,        \* history: selections made in the loop, counted until
                     \* Previous is selected for the first time (then 0)
    used_previous,   \* history: Previous was selected in this session
    \* ---- _generate_and_review_emails_sequential ----
    leads,           \* the leads to review (lead ids)
    lead_idx,        \* 0-based index of the lead of the outer loop
    attempt,         \* the inner loop's attempt, 0-based
    email_data,      \* the last value returned by _generate_email
    review_result,   \* the last result of review_email
    approved,        \* the list of approved emails built so far
    spc,             \* "idle", "generate", "review", "checklist", "done", "raised"
    genCount,        \* history: calls of _generate_email per lead
    last_checklist,  \* history: the last evaluation of final_checklist
    closed,          \* history: the current lead got an approve or edit decision
    \* ---- _conduct_research / ResearchLayer ----
    notes,           \* ResearchLayer.notes: key -> note (in memory)
    research_file,   \* the content of research_notes.json (key -> note)
    file_state,      \* "absent", "valid", or "partial" (truncated, not JSON)
    saved,           \* history: the keys whose note was reported as saved
    auto_research,   \* the agent's mode
    nleads,          \* len(leads) of the current run
    ridx,            \* 0-based index of the lead being researched
    lead,            \* leads[ridx]: its <<company_name, contact_name>>
    research,        \* the value the research of the last lead yielded
    researched,      \* the list _conduct_research builds
    rpc,             \* "idle", "lead", "saving", "returned", "raised", "crashed"
    calls,           \* history: the collaborators the last research step invoked
    env,             \* history: the answers and outcomes of the last research step
    produced,        \* history: lead pair -> the note produced the first time
    runs,            \* history: number of runs started
    \* ---- the functions on lists of company records ----
    companies,       \* the list of company records given at first
    clist,           \* the list of company records at hand
    cprev,           \* history: the list the last function was applied to
    trail,           \* history: the functions applied so far, in order
    \* ---- Company and its company_name validator ----
    raw_name,        \* the company_name given to Company(...)
    raw_score,       \* the fit_score_for_convexia given to Company(...)
    cur_name,        \* the value normalize_company_name was applied to last
    norm_name,       \* what the last application returned
    norm_count,      \* history: applications of normalize_company_name so far
    company,         \* what Company(...) yielded
    \* ---- _discover_companies ----
    max_companies,   \* the parameter of _discover_companies
    nvariants,       \* min(2, config.MAX_SEARCHES_PER_QUERY)
    variant,         \* the index of the query-variant loop
    all_companies,   \* the list the method accumulates
    contributions,   \* history: what each LLM call answered and what it added
    discovered,      \* the list the method returned
    dpc,             \* "idle", "variants", "vc", "finish", "returned", "raised"
    \* ---- _enrich_with_contacts ----
    ecompanies,      \* the companies given to _enrich_with_contacts
    eidx,            \* the index of the loop over the companies
    eleads,          \* the list of leads the method accumulates
    efailed,         \* history: the companies whose contact search raised
    enriched,        \* the list the method returned
    epc,             \* "idle", "loop", "returned", "raised"
    \* ---- calls of external APIs ----
    site,            \* the function that talks to the external API
    max_retries,     \* config.max_retries
    ncalls,          \* history: calls of the function so far
    attempt_number,  \* the attempt of the current call (tenacity counts from 1)
    outcomes,        \* history: how each attempt of the current call ended
    events,          \* history: "wait" (rate limiter) and "request", in order
    call_result,     \* "none", "value", "empty", "raised", "RetryError"
    cpc,             \* "idle", "attempt", "done"
    \* ---- chat_json ----
    client,          \* the class whose chat_json is called
    response_text,   \* the text chat() returns, as a sequence of tokens
    json_result,     \* what chat_json yielded
    jpc,             \* "idle", "call", "done"
    \* ---- run ----
    batch_review,    \* the constructor's parameter
    auto_approve,    \* the constructor's parameter (--auto-approve)
    phase,           \* the position in run(): "idle", "discovery",
                     \* "enrichment", "research", "generation", "generating",
                     \* "review", "export", "complete", "stopped", "raised"
    run_companies,   \* len(companies)
    run_leads,       \* len(leads)
    run_researched,  \* len(researched_leads)
    gen_idx,         \* the index of the generation loop of the batch mode
    last_email_data, \* what _generate_email returned last
    run_emails,      \* all_emails: the leads an email was generated for
    run_approved,    \* len(approved_emails)
    exports,         \* history: calls of _export_results
    exported_count,  \* history: the length of the list given to the last one
    stage_log,       \* history: the stages and prompts, in the order they ran
    raised_in,       \* history: the stage an exception left, or "none"
    \* ---- the two review policies side by side ----
    generated,       \* what _generate_email returns for each lead
    decisions,       \* the operator's decision for each lead
    \* ---- the caches ----
    cfunc,           \* the function that is called through a cache
    store,           \* the cache: key -> the value and whether it is fresh
    clog,            \* history: the calls so far, in order
    \* ---- normalize_phase ----
    phase_arg,       \* the argument of normalize_phase
    phase_name,      \* what normalize_phase returned
    npc              \* "idle", "call", "done"

batchVars == <<all_emails, current_idx, action, new_subject, new_body,
               approved_emails, proceed, result, bpc, nactions,
               used_previous>>
seqVars == <<leads, lead_idx, attempt, email_data, review_result, approved,
             spc, genCount, last_checklist, closed>>
resVars == <<notes, research_file, file_state, saved, auto_research, nleads,
             ridx, lead, research, researched, rpc, calls, env, produced,
             runs>>
listVars == <<companies, clist, cprev, trail>>
nameVars == <<raw_name, raw_score, cur_name, norm_name, norm_count, company>>
discVars == <<max_companies, nvariants, variant, all_companies, contributions,
              discovered, dpc>>
enrichVars == <<ecompanies, eidx, eleads, efailed, enriched, epc>>
callVars == <<site, max_retries, ncalls, attempt_number, outcomes, events,
              call_result, cpc>>
jsonVars == <<client, response_text, json_result, jpc>>
runVars == <<batch_review, auto_approve, phase, run_companies, run_leads, run_researched,
             gen_idx, last_email_data, run_emails, run_approved, exports,
             exported_count, stage_log, raised_in>>
polVars == <<generated, decisions>>
cacheVars == <<cfunc, store, clog>>
phaseVars == <<phase_arg, phase_name, npc>>
lateVars == <<polVars, cacheVars, phaseVars>>
ioVars == <<enrichVars, callVars, jsonVars, runVars, lateVars>>
coreVars == <<batchVars, seqVars, resVars, listVars, nameVars, discVars>>
coVars == <<listVars, nameVars, discVars, ioVars>>
vars == <<batchVars, seqVars, resVars, coVars>>

Null == "null"

\* ------------------------------------------------------------------ bounds
MaxEmails == 3
MaxLeads == 2
MaxResearchLeads == 2
MaxRuns == 2
MaxCompanies == 3
MaxApplications == 2
MaxSuffixes == 2
MaxNormalizations == 2
MaxBatch == 1
MaxReturned == 2
MaxEnriched == 3
MaxContacts == 2
MaxRetries == 3
MaxCalls == 2
MaxResponse == 4
MaxRunLeads == 3
MaxPolicyLeads == 2
MaxCacheCalls == 3

\* ------------------------------------------------------------------ texts
\* Subjects and bodies the generator can produce, and what the operator can
\* type when editing.
GenSubjects == {"S_gen"}
GenBodies == {"B_gen"}
EditSubjects == {"S_edit"}
EditBodies == {"B_edit"}

\* ------------------------------------------------------------------ strings
\* Python's `sub in s` on strings, over sequences of characters.
Contains(s, sub) ==
    \E i \in 0..(Len(s) - Len(sub)) :
        \A j \in 1..Len(sub) : s[i + j] = sub[j]

\* The menu labels of review_emails_batch (without the leading emoji).
LblApproved ==
    <<"A", "p", "p", "r", "o", "v", "e", "d">>
LblApprove ==
    <<"A", "p", "p", "r", "o", "v", "e", " ", "t", "h", "i", "s", " ", "e", "m", "a", "i", "l">>
LblEdit ==
    <<"E", "d", "i", "t", " ", "t", "h", "i", "s", " ", "e", "m", "a", "i", "l">>
LblRemove ==
    <<"R", "e", "m", "o", "v", "e", " ", "a", "p", "p", "r", "o", "v", "a", "l">>
LblSkip ==
    <<"S", "k", "i", "p", " ", "t", "h", "i", "s", " ", "e", "m", "a", "i", "l">>
LblPrevious ==
    <<"P", "r", "e", "v", "i", "o", "u", "s", " ", "e", "m", "a", "i", "l">>
LblNext ==
    <<"N", "e", "x", "t", " ", "e", "m", "a", "i", "l">>
LblDone ==
    <<"D", "o", "n", "e", " ", "r", "e", "v", "i", "e", "w", "i", "n", "g", " ", "(", "s", "e", "e", " ", "s", "u", "m", "m", "a", "r", "y", ")">>

ChoicesAll(email, idx, n) ==
    { IF email.approved THEN LblApproved ELSE LblApprove,
      LblEdit,
      IF email.approved THEN LblRemove ELSE LblSkip,
      LblDone, LblPrevious, LblNext }

\* The choices offered for the email at position idx of n emails.
Choices(email, idx, n) ==
    { IF email.approved THEN LblApproved ELSE LblApprove,
      LblEdit,
      IF email.approved THEN LblRemove ELSE LblSkip,
      LblDone }
    \cup (IF idx > 0 THEN {LblPrevious} ELSE {})
    \cup (IF idx < n - 1 THEN {LblNext} ELSE {})

\* The if/elif chain that dispatches on the selected label.
Branch(a) ==
    IF Contains(a, <<"A", "p", "p", "r", "o", "v", "e">>) THEN "approve"
    ELSE IF Contains(a, <<"E", "d", "i", "t">>) THEN "edit"
    ELSE IF Contains(a, LblRemove) \/ Contains(a, <<"S", "k", "i", "p">>)
         THEN "skip"
    ELSE IF Contains(a, <<"P", "r", "e", "v", "i", "o", "u", "s">>)
         THEN "previous"
    ELSE IF Contains(a, <<"N", "e", "x", "t">>) THEN "next"
    ELSE IF Contains(a, <<"D", "o", "n", "e">>) THEN "done"
    ELSE "none"

\* ------------------------------------------------------ review_emails_batch
RECURSIVE FilterApproved(_)
FilterApproved(es) ==
    IF es = <<>> THEN <<>>
    ELSE IF Head(es).approved
         THEN <<Head(es)>> \o FilterApproved(Tail(es))
         ELSE FilterApproved(Tail(es))

\* approved_emails = [e for e in all_emails if e['approved']]
ApprovedEmailsAll(es) == es
ApprovedEmails(es) == FilterApproved(es)

\* The flags every email gets before the loop.
ResetFlags(e) ==
    [id |-> e.id, subject |-> e.subject, body |-> e.body,
     approved |-> FALSE, edited |-> FALSE]

\* The value returned after the final confirmation.
GateResultAlways(answer, es) == es
GateResult(answer, es) == IF answer THEN es ELSE <<>>

\* Everything after the loop up to the confirmation prompt: the summary is
\* computed, and an empty approved list returns at once.
AfterLoop(es) ==
    /\ approved_emails' = ApprovedEmails(es)
    /\ IF ApprovedEmails(es) = <<>>
       THEN bpc' = "returned" /\ result' = <<>>
       ELSE bpc' = "gate" /\ result' = result
    /\ proceed' = proceed

\* Auto-advance after approve, edit and skip: the next email, or the end of
\* the loop on the last one.
AdvanceStay(es) ==
    /\ current_idx' = current_idx
    /\ bpc' = bpc
    /\ UNCHANGED <<approved_emails, result, proceed>>
AdvanceOrEnd(es) ==
    IF current_idx < Len(es) - 1
    THEN /\ current_idx' = current_idx + 1
         /\ bpc' = bpc
         /\ UNCHANGED <<approved_emails, result, proceed>>
    ELSE /\ current_idx' = current_idx
         /\ AfterLoop(es)

Current == all_emails[current_idx + 1]

\* One more selection at the menu of the loop.
Selected ==
    /\ nactions' = IF used_previous THEN 0 ELSE nactions + 1
    /\ used_previous' = used_previous

StartReview ==
    /\ UNCHANGED <<seqVars, resVars, coVars>>
    /\ bpc = "start"
    /\ IF all_emails = <<>>
       THEN /\ bpc' = "returned"
            /\ result' = <<>>
            /\ UNCHANGED <<all_emails, current_idx>>
       ELSE /\ all_emails' = [i \in 1..Len(all_emails) |-> ResetFlags(all_emails[i])]
            /\ current_idx' = 0
            /\ bpc' = "loop"
            /\ result' = result
    /\ UNCHANGED <<action, new_subject, new_body, approved_emails, proceed,
                   nactions, used_previous>>

EditEffectUnapproved(es, idx, ns, nb) ==
    [es EXCEPT ![idx + 1] = [@ EXCEPT !.subject = ns,
                                      !.body = nb,
                                      !.edited = TRUE]]

ApproveEffect(es, idx) ==
    [es EXCEPT ![idx + 1].approved = TRUE]

EditEffect(es, idx, ns, nb) ==
    [es EXCEPT ![idx + 1] = [@ EXCEPT !.subject = ns,
                                      !.body = nb,
                                      !.approved = TRUE,
                                      !.edited = TRUE]]

SkipEffectKeep(es, idx) == es
SkipEffect(es, idx) ==
    [es EXCEPT ![idx + 1].approved = FALSE]

Approve ==
    /\ UNCHANGED <<seqVars, resVars, coVars>>
    /\ bpc = "loop"
    /\ Selected
    /\ \E a \in Choices(Current, current_idx, Len(all_emails)) :
        /\ Branch(a) = "approve"
        /\ action' = a
        /\ all_emails' = ApproveEffect(all_emails, current_idx)
        /\ UNCHANGED <<new_subject, new_body>>
        /\ AdvanceOrEnd(all_emails')

Edit ==
    /\ UNCHANGED <<seqVars, resVars, coVars>>
    /\ bpc = "loop"
    /\ Selected
    /\ \E a \in Choices(Current, current_idx, Len(all_emails)) :
        /\ Branch(a) = "edit"
        /\ action' = a
        /\ \E ns \in {Current.subject} \cup EditSubjects,
              nb \in {Current.body} \cup EditBodies :
            /\ new_subject' = ns
            /\ new_body' = nb
            /\ all_emails' = EditEffect(all_emails, current_idx, ns, nb)
        /\ AdvanceOrEnd(all_emails')

Skip ==
    /\ UNCHANGED <<seqVars, resVars, coVars>>
    /\ bpc = "loop"
    /\ Selected
    /\ \E a \in Choices(Current, current_idx, Len(all_emails)) :
        /\ Branch(a) = "skip"
        /\ action' = a
        /\ all_emails' = SkipEffect(all_emails, current_idx)
        /\ UNCHANGED <<new_subject, new_body>>
        /\ AdvanceOrEnd(all_emails')

Previous ==
    /\ UNCHANGED <<seqVars, resVars, coVars>>
    /\ bpc = "loop"
    /\ nactions' = 0
    /\ used_previous' = TRUE
    /\ \E a \in Choices(Current, current_idx, Len(all_emails)) :
        /\ Branch(a) = "previous"
        /\ action' = a
        /\ current_idx' = current_idx - 1
        /\ UNCHANGED <<all_emails, new_subject, new_body, approved_emails,
                       proceed, result, bpc>>

NextEmail ==
    /\ UNCHANGED <<seqVars, resVars, coVars>>
    /\ bpc = "loop"
    /\ Selected
    /\ \E a \in Choices(Current, current_idx, Len(all_emails)) :
        /\ Branch(a) = "next"
        /\ action' = a
        /\ current_idx' = current_idx + 1
        /\ UNCHANGED <<all_emails, new_subject, new_body, approved_emails,
                       proceed, result, bpc>>

Done ==
    /\ UNCHANGED <<seqVars, resVars, coVars>>
    /\ bpc = "loop"
    /\ Selected
    /\ \E a \in Choices(Current, current_idx, Len(all_emails)) :
        /\ Branch(a) = "done"
        /\ action' = a
        /\ UNCHANGED <<all_emails, current_idx, new_subject, new_body>>
        /\ AfterLoop(all_emails)

Confirm ==
    /\ UNCHANGED <<seqVars, resVars, coVars>>
    /\ bpc = "gate"
    /\ \E answer \in BOOLEAN :
        /\ proceed' = (IF answer THEN "yes" ELSE "no")
        /\ result' = GateResult(answer, approved_emails)
    /\ bpc' = "returned"
    /\ UNCHANGED <<all_emails, current_idx, action, new_subject, new_body,
                   approved_emails, nactions, used_previous>>

BatchInit ==
    /\ \E n \in 0..MaxEmails :
        \E s \in [1..n -> GenSubjects], b \in [1..n -> GenBodies] :
            all_emails = [i \in 1..n |-> [id |-> i, subject |-> s[i], body |-> b[i]]]
    /\ current_idx = 0
    /\ action = <<>>
    /\ new_subject = Null
    /\ new_body = Null
    /\ approved_emails = <<>>
    /\ proceed = "none"
    /\ result = <<>>
    /\ bpc = "start"
    /\ nactions = 0
    /\ used_previous = FALSE

BatchIdle ==
    /\ all_emails = <<>>
    /\ current_idx = 0
    /\ action = <<>>
    /\ new_subject = Null
    /\ new_body = Null
    /\ approved_emails = <<>>
    /\ proceed = "none"
    /\ result = <<>>
    /\ bpc = "idle"
    /\ nactions = 0
    /\ used_previous = FALSE

BatchNext ==
    \/ StartReview
    \/ Approve
    \/ Edit
    \/ Skip
    \/ Previous
    \/ NextEmail
    \/ Done
    \/ Confirm

\* ------------------------- _generate_and_review_emails_sequential
\* What the generator's LLM can answer with: subjects and bodies.  The
\* attributes below are the ones final_checklist reads.
LlmSubjects == {"S_gen", "S_long"}
LlmBodies == {"B_gen", "B_generic"}

SubjectLen(s) == IF s = "S_long" THEN 61 ELSE 60
BodyWords(b) == IF b = "B_wordy" THEN 101 ELSE 100
HasGenericPhrase(b) == b = "B_generic"
HasSpecific(b) == b # "B_vague"

SubjectLimit == 60
WordLimit == 100

\* final_checklist's four checks.
AllPassed(subject, body) ==
    /\ SubjectLen(subject) <= SubjectLimit
    /\ BodyWords(body) <= WordLimit
    /\ ~HasGenericPhrase(body)
    /\ HasSpecific(body)

max_attempts_more == 3 + 1
max_attempts == 3

\* The values _generate_email can return: None on an exception of the LLM
\* call, otherwise whatever JSON the LLM answered with: an object with
\* subject and body, an empty object, or an object of another shape.
GenerateOutcomes ==
    {[kind |-> "null"], [kind |-> "empty"], [kind |-> "malformed"]}
    \cup {[kind |-> "email", subject |-> s, body |-> b] :
              s \in LlmSubjects, b \in LlmBodies}

\* `not email_data`
Falsy(e) == e.kind \in {"null", "empty"}

CurrentLead == leads[lead_idx + 1]

\* The dict appended to approved.
ApprovedRecord(l, r) ==
    [lead |-> l, subject |-> r.subject, body |-> r.body]

\* break: the inner loop ends, the outer loop takes the next lead or returns.
EndLead ==
    /\ lead_idx' = lead_idx + 1
    /\ attempt' = 0
    /\ closed' = FALSE
    /\ spc' = IF lead_idx + 1 < Len(leads) THEN "generate" ELSE "done"

\* The end of the loop body, or continue: the next attempt if one is left.
NextAttempt ==
    IF attempt + 1 < max_attempts
    THEN /\ attempt' = attempt + 1
         /\ spc' = "generate"
         /\ UNCHANGED <<lead_idx, closed>>
    ELSE EndLead

GenerateFailedRetry == NextAttempt
GenerateFailed == EndLead

Generate ==
    /\ UNCHANGED <<batchVars, resVars, coVars>>
    /\ spc = "generate"
    /\ genCount' = [genCount EXCEPT ![CurrentLead] = @ + 1]
    /\ \E e \in GenerateOutcomes :
        /\ email_data' = e
        /\ IF Falsy(e)
           THEN GenerateFailed
           ELSE IF e.kind = "malformed"
           THEN /\ spc' = "raised"
                /\ UNCHANGED <<lead_idx, attempt, closed>>
           ELSE /\ spc' = "review"
                /\ UNCHANGED <<lead_idx, attempt, closed>>
    /\ UNCHANGED <<leads, review_result, approved, last_checklist>>

\* review_email, "Approve (use as-is)": the caller goes on to final_checklist.
ReviewApprove ==
    /\ UNCHANGED <<batchVars, resVars, coVars>>
    /\ spc = "review"
    /\ review_result' = [status |-> "approved",
                         subject |-> email_data.subject,
                         body |-> email_data.body]
    /\ spc' = "checklist"
    /\ closed' = TRUE
    /\ UNCHANGED <<leads, lead_idx, attempt, email_data, approved, genCount,
                   last_checklist>>

\* What the caller does with final_checklist's answer.
ChecklistAppendAlways(answer) ==
    /\ approved' = Append(approved, ApprovedRecord(CurrentLead, review_result))
    /\ EndLead
ChecklistOutcome(answer) ==
    IF answer
    THEN /\ approved' = Append(approved, ApprovedRecord(CurrentLead, review_result))
         /\ EndLead
    ELSE /\ approved' = approved
         /\ NextAttempt

\* final_checklist: the checks are evaluated and the operator answers the
\* confirmation the checks select.
ChecklistAnswer ==
    /\ UNCHANGED <<batchVars, resVars, coVars>>
    /\ spc = "checklist"
    /\ \E answer \in BOOLEAN :
        /\ last_checklist' =
              [lead |-> CurrentLead, attempt |-> attempt,
               subject |-> review_result.subject,
               body |-> review_result.body,
               all_passed |-> AllPassed(review_result.subject, review_result.body),
               answer |-> answer]
        /\ ChecklistOutcome(answer)
    /\ UNCHANGED <<leads, email_data, review_result, genCount>>

\* review_email, "Edit subject and body": the edited email is appended.
ReviewEdit ==
    /\ UNCHANGED <<batchVars, resVars, coVars>>
    /\ spc = "review"
    /\ \E ns \in {email_data.subject} \cup EditSubjects,
          nb \in {email_data.body} \cup EditBodies :
        review_result' = [status |-> "edited", subject |-> ns, body |-> nb]
    /\ approved' = Append(approved, ApprovedRecord(CurrentLead, review_result'))
    /\ EndLead
    /\ UNCHANGED <<leads, email_data, genCount, last_checklist>>

RegenerateAsSkip == EndLead
RegenerateEffect ==
    IF attempt < max_attempts - 1 THEN NextAttempt ELSE EndLead

\* review_email, "Regenerate with different angle".
ReviewRegenerate ==
    /\ UNCHANGED <<batchVars, resVars, coVars>>
    /\ spc = "review"
    /\ review_result' = [status |-> "regenerate"]
    /\ RegenerateEffect
    /\ UNCHANGED <<leads, email_data, approved, genCount, last_checklist>>

\* review_email, "Skip this lead".
ReviewSkip ==
    /\ UNCHANGED <<batchVars, resVars, coVars>>
    /\ spc = "review"
    /\ review_result' = [status |-> "skipped"]
    /\ EndLead
    /\ UNCHANGED <<leads, email_data, approved, genCount, last_checklist>>

SeqInit ==
    /\ \E n \in 0..MaxLeads :
        /\ leads = [i \in 1..n |-> i]
        /\ genCount = [i \in 1..n |-> 0]
        /\ spc = IF n = 0 THEN "done" ELSE "generate"
    /\ lead_idx = 0
    /\ attempt = 0
    /\ email_data = [kind |-> "none"]
    /\ review_result = [status |-> "none"]
    /\ approved = <<>>
    /\ last_checklist = [lead |-> 0]
    /\ closed = FALSE

SeqNext ==
    \/ Generate
    \/ ReviewApprove
    \/ ChecklistAnswer
    \/ ReviewEdit
    \/ ReviewRegenerate
    \/ ReviewSkip

\* ------------------------------------- _conduct_research / ResearchLayer
\* Company and contact names, as sequences of characters.
Companies == {<<"A">>, <<"A", "_", "B">>}
Contacts == {<<"C">>, <<"B", "_", "C">>}
\* The leads: one plain pair and two different pairs whose keys coincide.
LeadPairs ==
    {p \in Companies \X Contacts : Len(p[1]) = 1 \/ Len(p[2]) = 1}

\* lead_key = f"{company_name}_{contact_name}"
LeadKey(company_name, contact_name) ==
    company_name \o <<"_">> \o contact_name

\* None, as the result of a research session.
NoNote == [none |-> TRUE]

\* has_research: lead_key in self.notes
has_research(company_name, contact_name) ==
    LeadKey(company_name, contact_name) \in DOMAIN notes

\* get_research: self.notes.get(lead_key, {})
get_research(company_name, contact_name) ==
    IF LeadKey(company_name, contact_name) \in DOMAIN notes
    THEN notes[LeadKey(company_name, contact_name)]
    ELSE [empty |-> TRUE]

\* `if research:` - None and the empty dict are falsy.
Truthy(r) == r # NoNote /\ r # [empty |-> TRUE]

\* ---- _auto_research: its collaborators' outcomes ----
\* enrich_with_news returns a non-empty list of articles, an empty list, or
\* raises; claude.chat_json returns a JSON object, a JSON value that is not an
\* object (the `.get` calls then raise inside the try), or raises.
NewsOutcomes == {"articles", "empty", "raises"}
LlmOutcomes == {"object", "not_an_object", "raises"}

\* news_articles after the first try/except: the except branch sets [].
NewsArticles(news) == IF news = "raises" THEN "empty" ELSE news

\* news_summary after the first try/except.
NewsSummary(news) == IF news = "articles" THEN "titles" ELSE "no_news"

\* The second try block reaches its return only when chat_json returned an
\* object; every exception is caught.
InsightsUsableLoose(llm) == llm # "raises"

InsightsUsable(llm) == llm = "object"

\* The value _auto_research returns.
auto_research_note(news, llm) ==
    IF InsightsUsable(llm)
    THEN [auto_generated |-> TRUE, insights |-> "llm",
          news |-> NewsArticles(news), manual_notes |-> "absent"]
    ELSE [auto_generated |-> TRUE, insights |-> "fallback",
          news |-> NewsSummary(news), manual_notes |-> "absent"]

\* conduct_research, auto branch: the operator may add manual notes.
AddManualNotes(r, add_more) ==
    IF add_more THEN [r EXCEPT !.manual_notes = "typed"] ELSE r

\* The answers to "Want to add your own research notes?" (default: no).
AddMoreAnswers == {FALSE}

\* The notes the auto branch can return.
AutoNotes ==
    {AddManualNotes(auto_research_note(n, l), m) :
        n \in NewsOutcomes, l \in LlmOutcomes, m \in AddMoreAnswers}

\* ---- the manual session ----
\* The confidence labels (without the leading emoji); of the four labels
\* that keep the lead, the first and the last.
ConfExcellent ==
    <<"E", "x", "c", "e", "l", "l", "e", "n", "t", " ", "(", "9", "-", "1", "0", ")">>
ConfWeak ==
    <<"W", "e", "a", "k", " ", "(", "3", "-", "4", ")">>
ConfSkip ==
    <<"S", "k", "i", "p", " ", "t", "h", "i", "s", " ", "o", "n", "e">>
Confidences == {ConfExcellent, ConfWeak, ConfSkip}
Hooks == {"hook1"}
ManualNote(hook, confidence) ==
    [auto_generated |-> FALSE, best_hook |-> hook, confidence |-> confidence]

\* `if "Skip" in research['confidence']`
SkipsLeadNever(confidence) == FALSE

SkipsLead(confidence) == Contains(confidence, <<"S", "k", "i", "p">>)

\* What the manual session yields for the operator's answers: None when the
\* operator is not ready or selects the skip confidence, the findings else.
ManualSession(ready, hook, confidence) ==
    IF ~ready THEN NoNote
    ELSE IF SkipsLead(confidence) THEN NoNote
    ELSE ManualNote(hook, confidence)

\* What the last research step was given: the operator's answers and the
\* collaborators' outcomes ("-" and <<>>: not asked).
NoEnv == [ready |-> FALSE, confidence |-> <<>>, news |-> "-", llm |-> "-"]

\* ---- research_notes.json ----
\* _load_notes: {} when the file does not exist, json.load's value when it
\* holds the dumped mapping; json.load raises on a truncated file.
LoadRaises == file_state = "partial"
load_notes == IF file_state = "valid" THEN research_file ELSE <<>>

\* _save_notes, json.dump: the file holds the whole mapping.
SaveNotesWriteNothing(ns) == <<>>

SaveNotesWrite(ns) == ns

CurrentPair == lead

\* The rest of the loop body of _conduct_research, after `research` is set.
AfterResearch(r) ==
    /\ research' = r
    /\ researched' = IF Truthy(r) THEN Append(researched, lead)
                                 ELSE researched
    /\ produced' = IF Truthy(r) /\ produced[CurrentPair] = NoNote
                   THEN [produced EXCEPT ![CurrentPair] = r]
                   ELSE produced
    /\ ridx' = ridx + 1
    /\ IF ridx + 1 < nleads
       THEN rpc' = "lead" /\ lead' \in LeadPairs
       ELSE rpc' = "returned" /\ lead' = lead

\* The lead has a stored note: it is loaded.
ResearchStored ==
    /\ UNCHANGED <<batchVars, seqVars, coVars>>
    /\ rpc = "lead"
    /\ has_research(CurrentPair[1], CurrentPair[2])
    /\ calls' = {}
    /\ env' = NoEnv
    /\ AfterResearch(get_research(CurrentPair[1], CurrentPair[2]))
    /\ UNCHANGED <<notes, research_file, file_state, saved, auto_research,
                   nleads, runs>>

\* conduct_research with auto_research: news lookup, LLM analysis, and the
\* operator's optional addition.  The note is returned.
ResearchAuto ==
    /\ UNCHANGED <<batchVars, seqVars, coVars>>
    /\ rpc = "lead"
    /\ ~has_research(CurrentPair[1], CurrentPair[2])
    /\ auto_research
    /\ calls' = {"news", "llm", "prompt"}
    /\ \E n \in NewsOutcomes, l \in LlmOutcomes, add_more \in AddMoreAnswers :
        /\ env' = [NoEnv EXCEPT !.news = n, !.llm = l]
        /\ AfterResearch(AddManualNotes(auto_research_note(n, l), add_more))
    /\ UNCHANGED <<notes, research_file, file_state, saved, auto_research,
                   nleads, runs>>

\* conduct_research in manual mode, the guidance LLM call raising: nothing
\* catches the exception.
ResearchManualRaises ==
    /\ UNCHANGED <<batchVars, seqVars, coVars>>
    /\ rpc = "lead"
    /\ ~has_research(CurrentPair[1], CurrentPair[2])
    /\ ~auto_research
    /\ calls' = {"llm"}
    /\ env' = [NoEnv EXCEPT !.llm = "raises"]
    /\ rpc' = "raised"
    /\ UNCHANGED <<notes, research_file, file_state, saved, auto_research,
                   nleads, ridx, lead, research, researched, produced, runs>>

\* conduct_research in manual mode, the operator not ready, or choosing the
\* skip confidence: None is returned and nothing is stored.
ResearchManualSkipped ==
    /\ UNCHANGED <<batchVars, seqVars, coVars>>
    /\ rpc = "lead"
    /\ ~has_research(CurrentPair[1], CurrentPair[2])
    /\ ~auto_research
    /\ calls' = {"llm", "prompt"}
    /\ \E ready \in BOOLEAN, hook \in Hooks :
       \E confidence \in (IF ready THEN Confidences ELSE {<<>>}) :
        /\ ManualSession(ready, hook, confidence) = NoNote
        /\ env' = [NoEnv EXCEPT !.ready = ready,
                                !.confidence = IF ready THEN confidence
                                               ELSE <<>>,
                                !.llm = "object"]
        /\ AfterResearch(NoNote)
    /\ UNCHANGED <<notes, research_file, file_state, saved, auto_research,
                   nleads, runs>>

\* conduct_research in manual mode, the findings entered: the note is stored
\* under the lead's key and _save_notes opens the file for writing, which
\* truncates it.
ResearchManual ==
    /\ UNCHANGED <<batchVars, seqVars, coVars>>
    /\ rpc = "lead"
    /\ ~has_research(CurrentPair[1], CurrentPair[2])
    /\ ~auto_research
    /\ calls' = {"llm", "prompt"}
    /\ \E hook \in Hooks, confidence \in Confidences :
        LET r == ManualSession(TRUE, hook, confidence)
            key == LeadKey(CurrentPair[1], CurrentPair[2])
        IN  /\ r # NoNote
            /\ env' = [NoEnv EXCEPT !.ready = TRUE,
                                    !.confidence = confidence,
                                    !.llm = "object"]
            /\ notes' = [k \in DOMAIN notes \cup {key} |->
                            IF k = key THEN r ELSE notes[k]]
    /\ research_file' = <<>>
    /\ file_state' = "partial"
    /\ rpc' = "saving"
    /\ UNCHANGED <<saved, auto_research, nleads, ridx, lead, research,
                   researched, produced, runs>>

\* _save_notes, json.dump and the close of the file; conduct_research then
\* returns the note it stored.
SaveNotes ==
    /\ UNCHANGED <<batchVars, seqVars, coVars>>
    /\ rpc = "saving"
    /\ research_file' = SaveNotesWrite(notes)
    /\ file_state' = "valid"
    /\ saved' = saved \cup {LeadKey(CurrentPair[1], CurrentPair[2])}
    /\ AfterResearch(notes[LeadKey(CurrentPair[1], CurrentPair[2])])
    /\ UNCHANGED <<notes, auto_research, nleads, calls, env, runs>>

\* The process dies between the open of the file and the end of json.dump.
CrashDuringSave ==
    /\ UNCHANGED <<batchVars, seqVars, coVars>>
    /\ rpc = "saving"
    /\ rpc' = "crashed"
    /\ calls' = {}
    /\ UNCHANGED <<notes, research_file, file_state, saved, auto_research,
                   nleads, ridx, lead, research, researched, env, produced,
                   runs>>

\* A run: the agent and its ResearchLayer are constructed (the notes are
\* loaded from the file) and _conduct_research gets the run's leads.
\* The leads of the run are drawn one by one, as the loop reaches them.
\* When _load_notes raises, the constructor raises and the run ends.
StartRun(mode, n) ==
    /\ notes' = load_notes
    /\ auto_research' = mode
    /\ nleads' = n
    /\ ridx' = 0
    /\ researched' = <<>>
    /\ IF LoadRaises
       THEN rpc' = "raised" /\ lead' = <<>>
       ELSE IF n = 0
            THEN rpc' = "returned" /\ lead' = <<>>
            ELSE rpc' = "lead" /\ lead' \in LeadPairs

NewRun ==
    /\ UNCHANGED <<batchVars, seqVars, coVars>>
    /\ rpc \in {"returned", "raised", "crashed"}
    /\ runs < MaxRuns
    /\ runs' = runs + 1
    /\ \E mode \in BOOLEAN, n \in 0..MaxResearchLeads : StartRun(mode, n)
    /\ calls' = {}
    /\ env' = NoEnv
    /\ UNCHANGED <<research_file, file_state, saved, research, produced>>

ResInit ==
    /\ research_file = <<>>
    /\ file_state = "absent"
    /\ saved = {}
    /\ notes = <<>>
    /\ auto_research \in BOOLEAN
    /\ nleads \in 0..MaxResearchLeads
    /\ ridx = 0
    /\ IF nleads = 0
       THEN rpc = "returned" /\ lead = <<>>
       ELSE rpc = "lead" /\ lead \in LeadPairs
    /\ research = NoNote
    /\ researched = <<>>
    /\ calls = {}
    /\ env = NoEnv
    /\ produced = [p \in LeadPairs |-> NoNote]
    /\ runs = 1

ResNext ==
    \/ ResearchStored
    \/ ResearchAuto
    \/ ResearchManualRaises
    \/ ResearchManualSkipped
    \/ ResearchManual
    \/ SaveNotes
    \/ CrashDuringSave
    \/ NewRun

\* ------------------------------------------------ strings of company names
\* str.lower(), on the letters A-Z.
UpperChars ==
    <<"A", "B", "C", "D", "E", "F", "G", "H", "I", "J", "K", "L", "M",
      "N", "O", "P", "Q", "R", "S", "T", "U", "V", "W", "X", "Y", "Z">>
LowerChars ==
    <<"a", "b", "c", "d", "e", "f", "g", "h", "i", "j", "k", "l", "m",
      "n", "o", "p", "q", "r", "s", "t", "u", "v", "w", "x", "y", "z">>
LowerChar(c) ==
    IF \E i \in DOMAIN UpperChars : UpperChars[i] = c
    THEN LowerChars[CHOOSE i \in DOMAIN UpperChars : UpperChars[i] = c]
    ELSE c
Lower(s) == [i \in 1..Len(s) |-> LowerChar(s[i])]

\* str.strip(): leading and trailing whitespace removed.
Whitespace == {" ", "\t", "\n"}
Strip(s) ==
    LET solid == {i \in 1..Len(s) : s[i] \notin Whitespace}
    IN  IF solid = {} THEN <<>>
        ELSE SubSeq(s, CHOOSE i \in solid : \A j \in solid : i <= j,
                       CHOOSE i \in solid : \A j \in solid : j <= i)

\* ----------------------------------- the functions on lists of company dicts
\* A company dict, as far as these functions read it: company_name is a
\* string ("str"), None ("none"), or the key is absent ("missing").
CompanyPool ==
    { [name_kind |-> "str", company_name |-> <<"A", "b">>,
       company_size |-> "small", fit_score |-> 50],
      [name_kind |-> "str", company_name |-> <<"a", "B", " ">>,
       company_size |-> "small", fit_score |-> 90],
      [name_kind |-> "str", company_name |-> <<"A", "b">>,
       company_size |-> "large", fit_score |-> 90],
      [name_kind |-> "str", company_name |-> <<"M", "y", "G", "S", "K">>,
       company_size |-> "small", fit_score |-> 50],
      [name_kind |-> "str", company_name |-> <<"Z">>,
       company_size |-> "small", fit_score |-> 50],
      [name_kind |-> "str", company_name |-> <<" ">>,
       company_size |-> "small", fit_score |-> 50],
      [name_kind |-> "str", company_name |-> <<>>,
       company_size |-> "small", fit_score |-> 50],
      [name_kind |-> "none", company_name |-> <<>>,
       company_size |-> "small", fit_score |-> 50],
      [name_kind |-> "missing", company_name |-> <<>>,
       company_size |-> "small", fit_score |-> 50] }

RECURSIVE ListsUpTo(_, _)
ListsUpTo(S, n) ==
    IF n = 0 THEN {<<>>}
    ELSE LET shorter == ListsUpTo(S, n - 1)
         IN  shorter \cup {Append(l, x) : l \in shorter, x \in S}

\* ConvexiaCRMAgent.big_pharma
big_pharma ==
    { <<"p", "f", "i", "z", "e", "r">>,
      <<"n", "o", "v", "a", "r", "t", "i", "s">>,
      <<"r", "o", "c", "h", "e">>,
      <<"s", "a", "n", "o", "f", "i">>,
      <<"g", "s", "k">>,
      <<"g", "l", "a", "x", "o", "s", "m", "i", "t", "h", "k", "l", "i", "n", "e">>,
      <<"a", "s", "t", "r", "a", "z", "e", "n", "e", "c", "a">>,
      <<"m", "e", "r", "c", "k">>,
      <<"l", "i", "l", "l", "y">>,
      <<"e", "l", "i", " ", "l", "i", "l", "l", "y">>,
      <<"b", "m", "s">>,
      <<"b", "r", "i", "s", "t", "o", "l", " ", "m", "y", "e", "r", "s">>,
      <<"j", "o", "h", "n", "s", "o", "n", " ", "&", " ", "j", "o", "h", "n", "s", "o", "n">>,
      <<"j", "&", "j">>,
      <<"b", "a", "y", "e", "r">>,
      <<"b", "o", "e", "h", "r", "i", "n", "g", "e", "r">>,
      <<"t", "a", "k", "e", "d", "a">>,
      <<"a", "b", "b", "v", "i", "e">>,
      <<"v", "e", "r", "t", "e", "x">>,
      <<"r", "e", "g", "e", "n", "e", "r", "o", "n">>,
      <<"b", "i", "o", "m", "a", "r", "i", "n">>,
      <<"g", "i", "l", "e", "a", "d">>,
      <<"a", "m", "g", "e", "n">>,
      <<"b", "i", "o", "g", "e", "n">>,
      <<"m", "o", "d", "e", "r", "n", "a">>,
      <<"i", "n", "c", "y", "t", "e">>,
      <<"a", "l", "n", "y", "l", "a", "m">>,
      <<"n", "o", "v", "o", " ", "n", "o", "r", "d", "i", "s", "k">>,
      <<"a", "l", "e", "x", "i", "o", "n">>,
      <<"s", "e", "a", "g", "e", "n">> }

\* _is_big_pharma: any(bp in company_name.lower() for bp in self.big_pharma)
is_big_pharma(company_name) ==
    \E bp \in big_pharma : Contains(Lower(company_name), bp)

\* ---- ConvexiaCRMAgent._deduplicate_companies ----
\* company.get('company_name', '') is None for a null name: .lower() raises.
AgentDedupRaises(cs) == \E i \in 1..Len(cs) : cs[i].name_kind = "none"

\* name = company.get('company_name', '').lower().strip()
AgentKey(c) ==
    IF c.name_kind = "str" THEN Strip(Lower(c.company_name)) ELSE <<>>

RECURSIVE AgentDedupLoopSkipping(_, _, _)
AgentDedupLoopSkipping(cs, seen, unique) ==
    IF cs = <<>> THEN unique
    ELSE IF AgentKey(Head(cs)) # <<>> /\ AgentKey(Head(cs)) \notin seen
    THEN AgentDedupLoopSkipping(Tail(cs), seen \cup {AgentKey(Head(cs))},
                                Append(unique, Head(cs)))
    ELSE IF Len(cs) >= 2
    THEN AgentDedupLoopSkipping(Tail(Tail(cs)), seen, Append(unique, cs[2]))
    ELSE unique

\* The loop over companies, with the set `seen` and the list `unique`.
RECURSIVE AgentDedupLoop(_, _, _)
AgentDedupLoop(cs, seen, unique) ==
    IF cs = <<>> THEN unique
    ELSE IF AgentKey(Head(cs)) # <<>> /\ AgentKey(Head(cs)) \notin seen
    THEN AgentDedupLoop(Tail(cs), seen \cup {AgentKey(Head(cs))},
                        Append(unique, Head(cs)))
    ELSE AgentDedupLoop(Tail(cs), seen, unique)

AgentDedup(cs) == AgentDedupLoop(cs, {}, <<>>)

\* ---- config.utils.deduplicate_companies ----
UtilsKeyNoLower(c) ==
    IF c.name_kind = "str" THEN Strip(c.company_name) ELSE <<>>

\* name = (company.get("company_name") or "").strip().lower()
UtilsKey(c) ==
    IF c.name_kind = "str" THEN Lower(Strip(c.company_name)) ELSE <<>>

RECURSIVE UtilsDedupLoop(_, _, _)
UtilsDedupLoop(cs, seen, deduped) ==
    IF cs = <<>> THEN deduped
    ELSE IF UtilsKey(Head(cs)) = <<>> \/ UtilsKey(Head(cs)) \in seen
    THEN UtilsDedupLoop(Tail(cs), seen, deduped)
    ELSE UtilsDedupLoop(Tail(cs), seen \cup {UtilsKey(Head(cs))},
                        Append(deduped, Head(cs)))

deduplicate_companies(cs) == UtilsDedupLoop(cs, {}, <<>>)

\* ---- _synthesize_companies: the filter over the LLM's records ----
\* _is_big_pharma(None) raises; the except branch of the method returns [].
FilterRaises(cs) == \E i \in 1..Len(cs) : cs[i].name_kind = "none"

\* `continue` for a big-pharma name or company_size == 'large'.
FilteredOut(c) ==
    \/ is_big_pharma(c.company_name)
    \/ c.company_size = "large"

RECURSIVE FilterLoop(_, _)
FilterLoop(cs, filtered) ==
    IF cs = <<>> THEN filtered
    ELSE IF FilteredOut(Head(cs)) THEN FilterLoop(Tail(cs), filtered)
    ELSE FilterLoop(Tail(cs), Append(filtered, Head(cs)))

SynthesisFilter(cs) == IF FilterRaises(cs) THEN <<>> ELSE FilterLoop(cs, <<>>)

\* ---- the functions applied to a list ----
\* A caller applies a function to a list it got from an earlier call.
CanApply ==
    /\ Len(trail) < MaxApplications
    /\ \A i \in 1..Len(trail) : trail[i] # "raised"

Applied(f, out) ==
    /\ UNCHANGED <<batchVars, seqVars, resVars, nameVars, discVars,
                   ioVars>>
    /\ cprev' = clist
    /\ clist' = out
    /\ trail' = Append(trail, f)
    /\ UNCHANGED companies

ApplyAgentDedup ==
    /\ CanApply
    /\ ~AgentDedupRaises(clist)
    /\ Applied("agent_dedup", AgentDedup(clist))

ApplyAgentDedupRaises ==
    /\ CanApply
    /\ AgentDedupRaises(clist)
    /\ Applied("raised", clist)

ApplyUtilsDedup ==
    /\ CanApply
    /\ Applied("utils_dedup", deduplicate_companies(clist))

ApplySynthesisFilter ==
    /\ CanApply
    /\ Applied("filter", SynthesisFilter(clist))

ListInit ==
    /\ companies \in ListsUpTo(CompanyPool, MaxCompanies)
    /\ clist = companies
    /\ cprev = <<>>
    /\ trail = <<>>

ListNext ==
    \/ ApplyAgentDedup
    \/ ApplyAgentDedupRaises
    \/ ApplyUtilsDedup
    \/ ApplySynthesisFilter

\* --------------------------------- Company and its company_name validator
\* The list `suffixes` of normalize_company_name, in its order.
suffixes ==
    << <<" ", "I", "n", "c">>,
       <<" ", "I", "n", "c", ".">>,
       <<" ", "L", "L", "C">>,
       <<" ", "L", "t", "d">>,
       <<" ", "L", "t", "d", ".">>,
       <<" ", "C", "o", "r", "p", "o", "r", "a", "t", "i", "o", "n">>,
       <<" ", "C", "o", "r", "p">>,
       <<" ", "C", "o", "r", "p", ".">> >>

\* str.endswith
EndsWith(s, suffix) ==
    /\ Len(s) >= Len(suffix)
    /\ SubSeq(s, Len(s) - Len(suffix) + 1, Len(s)) = suffix

\* One round of the loop: normalized[:-len(suffix)].strip() when the value
\* ends with the suffix.
StripSuffix(normalized, suffix) ==
    IF EndsWith(normalized, suffix)
    THEN Strip(SubSeq(normalized, 1, Len(normalized) - Len(suffix)))
    ELSE normalized

\* `for suffix in suffixes`: one pass over the list, from position i on.
RECURSIVE SuffixLoop(_, _)
SuffixLoop(normalized, i) ==
    IF i > Len(suffixes) THEN normalized
    ELSE SuffixLoop(StripSuffix(normalized, suffixes[i]), i + 1)

normalize_company_name(v) == SuffixLoop(Strip(v), 1)

\* Company(company_name=v, fit_score_for_convexia=score): the constraints of
\* the fields are checked on the values given (min_length=1; ge=0, le=100),
\* then the validator of company_name replaces the name by its return value.
MinLengthOk(v) == Len(v) >= 1
ScoreOk(score) == score >= 0 /\ score <= 100
Construct(v, score) ==
    IF MinLengthOk(v) /\ ScoreOk(score)
    THEN [status |-> "ok", company_name |-> normalize_company_name(v),
          fit_score_for_convexia |-> score]
    ELSE [status |-> "rejected", company_name |-> <<>>,
          fit_score_for_convexia |-> 0]

\* The names given: a stem followed by up to MaxSuffixes legal suffixes.
Stems == {<<"A">>, <<" ">>, <<>>}
RECURSIVE SuffixRuns(_)
SuffixRuns(n) ==
    IF n = 0 THEN {<<>>}
    ELSE LET shorter == SuffixRuns(n - 1)
         IN  shorter \cup {r \o suffixes[i] : r \in shorter,
                                              i \in DOMAIN suffixes}
RawNames == {stem \o r : stem \in Stems, r \in SuffixRuns(MaxSuffixes)}
Scores == {0 - 10, 50, 150}

\* normalize_company_name is applied to the name given, then to its own
\* return value.
Normalize ==
    /\ UNCHANGED <<batchVars, seqVars, resVars, listVars, discVars,
                   ioVars>>
    /\ norm_count < MaxNormalizations
    /\ cur_name' = IF norm_count = 0 THEN raw_name ELSE norm_name
    /\ norm_name' = normalize_company_name(cur_name')
    /\ norm_count' = norm_count + 1
    /\ UNCHANGED <<raw_name, raw_score, company>>

ConstructCompany ==
    /\ UNCHANGED <<batchVars, seqVars, resVars, listVars, discVars,
                   ioVars>>
    /\ company.status = "none"
    /\ company' = Construct(raw_name, raw_score)
    /\ UNCHANGED <<raw_name, raw_score, cur_name, norm_name, norm_count>>

NameInit ==
    /\ raw_name \in RawNames
    /\ raw_score \in Scores
    /\ cur_name = <<>>
    /\ norm_name = <<>>
    /\ norm_count = 0
    /\ company = [status |-> "none", company_name |-> <<>>,
                  fit_score_for_convexia |-> 0]

NameNext ==
    \/ Normalize
    \/ ConstructCompany

\* ----------------------------------------------------- _discover_companies
\* The records the LLM can return to the discovery stage: two names with the
\* same key, a score outside 0..100, a record without the fit_score key, a
\* denylisted name with the score of another record, and a null name.
DiscoveryPool ==
    { [name_kind |-> "str", company_name |-> <<"A", "b">>,
       company_size |-> "small", score_kind |-> "int", fit_score |-> 50],
      [name_kind |-> "str", company_name |-> <<"a", "B", " ">>,
       company_size |-> "small", score_kind |-> "int", fit_score |-> 150],
      [name_kind |-> "str", company_name |-> <<"Z">>,
       company_size |-> "small", score_kind |-> "missing", fit_score |-> 0],
      [name_kind |-> "str", company_name |-> <<"M", "y", "G", "S", "K">>,
       company_size |-> "small", score_kind |-> "int", fit_score |-> 50],
      [name_kind |-> "none", company_name |-> <<>>,
       company_size |-> "small", score_kind |-> "int", fit_score |-> 50] }

\* What claude.chat_json yields: it raises (also for a response that is no
\* JSON), or returns a value that is no list (and, in _synthesize_companies,
\* no dict with 'companies': here a dict that holds a record under another
\* key), or a list.
LlmAnswers ==
    {[kind |-> "raises", records |-> <<>>],
     [kind |-> "unexpected",
      records |-> <<[name_kind |-> "str", company_name |-> <<"Z">>,
                     company_size |-> "small", score_kind |-> "missing",
                     fit_score |-> 0]>>]}
    \cup {[kind |-> "list", records |-> l] :
            l \in ListsUpTo(DiscoveryPool, MaxBatch)}

SynthesizeAnyShape(answer) == SynthesisFilter(answer.records)

\* _synthesize_companies: [] unless the answer is a list; the list filtered.
synthesize_companies(answer) ==
    IF answer.kind = "list" THEN SynthesisFilter(answer.records) ELSE <<>>

\* _discover_vc_firms: the list as the LLM gave it, or [].
discover_vc_firms(answer) ==
    IF answer.kind = "list" THEN answer.records ELSE <<>>

\* x.get('fit_score', 0)
SortKey(c) == IF c.score_kind = "missing" THEN 0 ELSE c.fit_score

InsertByScoreUnstable(sorted, c) ==
    LET k == Cardinality({i \in 1..Len(sorted) :
                            SortKey(sorted[i]) > SortKey(c)})
    IN  SubSeq(sorted, 1, k) \o <<c>> \o SubSeq(sorted, k + 1, Len(sorted))

\* sorted(..., key=lambda x: x.get('fit_score', 0), reverse=True): stable,
\* by insertion after the records whose score is not smaller.
InsertByScore(sorted, c) ==
    LET k == Cardinality({i \in 1..Len(sorted) :
                            SortKey(sorted[i]) >= SortKey(c)})
    IN  SubSeq(sorted, 1, k) \o <<c>> \o SubSeq(sorted, k + 1, Len(sorted))
RECURSIVE SortedByScore(_)
SortedByScore(cs) ==
    IF cs = <<>> THEN <<>>
    ELSE InsertByScore(SortedByScore(SubSeq(cs, 1, Len(cs) - 1)),
                       cs[Len(cs)])

\* [:max_companies]
FirstN(cs, n) == SubSeq(cs, 1, IF n < Len(cs) THEN n ELSE Len(cs))

\* After a query variant: the next one, or the VC sub-query.
AfterVariant ==
    /\ variant' = variant + 1
    /\ dpc' = IF variant + 1 < nvariants THEN "variants" ELSE "vc"

\* One turn of the loop over the query variants: both searches return and
\* the synthesized companies are appended.
QueryVariant ==
    /\ UNCHANGED <<batchVars, seqVars, resVars, listVars, nameVars,
                   ioVars>>
    /\ dpc = "variants"
    /\ \E answer \in LlmAnswers :
        /\ all_companies' = all_companies \o synthesize_companies(answer)
        /\ contributions' = Append(contributions,
                                   [kind |-> answer.kind,
                                    added |-> synthesize_companies(answer)])
    /\ AfterVariant
    /\ UNCHANGED <<max_companies, nvariants, discovered>>

\* search_companies or search_clinical_trials raises in a variant: the loop
\* has no try, the exception leaves _discover_companies.
QueryVariantRaises ==
    /\ UNCHANGED <<batchVars, seqVars, resVars, listVars, nameVars,
                   ioVars>>
    /\ dpc = "variants"
    /\ dpc' = "raised"
    /\ UNCHANGED <<max_companies, nvariants, variant, all_companies,
                   contributions, discovered>>

\* The VC sub-query: its firms are appended as they come.
VcFirms ==
    /\ UNCHANGED <<batchVars, seqVars, resVars, listVars, nameVars,
                   ioVars>>
    /\ dpc = "vc"
    /\ \E answer \in LlmAnswers :
        /\ all_companies' = all_companies \o discover_vc_firms(answer)
        /\ contributions' = Append(contributions,
                                   [kind |-> answer.kind,
                                    added |-> discover_vc_firms(answer)])
    /\ dpc' = "finish"
    /\ UNCHANGED <<max_companies, nvariants, variant, discovered>>

\* search_companies raises in _discover_vc_firms, before its try.
VcFirmsRaises ==
    /\ UNCHANGED <<batchVars, seqVars, resVars, listVars, nameVars,
                   ioVars>>
    /\ dpc = "vc"
    /\ dpc' = "raised"
    /\ UNCHANGED <<max_companies, nvariants, variant, all_companies,
                   contributions, discovered>>

\* Deduplicate, rank and truncate; the value is returned.
RankAndReturn ==
    /\ UNCHANGED <<batchVars, seqVars, resVars, listVars, nameVars,
                   ioVars>>
    /\ dpc = "finish"
    /\ IF AgentDedupRaises(all_companies)
       THEN dpc' = "raised" /\ discovered' = discovered
       ELSE /\ dpc' = "returned"
            /\ discovered' = FirstN(SortedByScore(AgentDedup(all_companies)),
                                    max_companies)
    /\ UNCHANGED <<max_companies, nvariants, variant, all_companies,
                   contributions>>

DiscInit ==
    /\ max_companies \in 0..MaxReturned
    /\ nvariants \in 1..2
    /\ variant = 0
    /\ all_companies = <<>>
    /\ contributions = <<>>
    /\ discovered = <<>>
    /\ dpc = "variants"

DiscNext ==
    \/ QueryVariant
    \/ QueryVariantRaises
    \/ VcFirms
    \/ VcFirmsRaises
    \/ RankAndReturn

\* ------------------------------------------------- _enrich_with_contacts
\* The companies the discovery hands over: each has a non-empty string name
\* (the deduplication keeps no other record) and is a biotech or a VC firm.
CompanyTypes == {"biotech", "vc_firm"}

RECURSIVE TypeLists(_)
TypeLists(n) ==
    IF n = 0 THEN {<<>>}
    ELSE TypeLists(n - 1)
         \cup {Append(l, t) : l \in {x \in TypeLists(n - 1) : Len(x) = n - 1},
                              t \in CompanyTypes}

\* find_decision_makers(company_name, ..., max_results=3): the contacts of
\* one company, numbered; at most MaxContacts of them here.
DecisionMakers == {<<>>} \cup {[k \in 1..n |-> k] : n \in 1..MaxContacts}

\* for dm in decision_makers: leads.append({'company': ..., 'contact': dm})
RECURSIVE LeadsOf(_, _)
LeadsOf(c, dms) ==
    IF dms = <<>> THEN <<>>
    ELSE LeadsOf(c, SubSeq(dms, 1, Len(dms) - 1))
         \o <<[company |-> c, contact |-> dms[Len(dms)]]>>

\* One turn of the loop: the contact search returns and a lead is appended
\* for every contact.
EnrichCompany ==
    /\ UNCHANGED <<coreVars, lateVars, callVars, jsonVars, runVars>>
    /\ epc = "loop"
    /\ eidx < Len(ecompanies)
    /\ \E dms \in DecisionMakers :
        eleads' = eleads \o LeadsOf(eidx + 1, dms)
    /\ eidx' = eidx + 1
    /\ UNCHANGED <<ecompanies, efailed, enriched, epc>>

\* find_decision_makers raises for the company of this turn: the loop has no
\* try, the exception leaves _enrich_with_contacts and nothing is returned.
EnrichCompanyRaises ==
    /\ UNCHANGED <<coreVars, lateVars, callVars, jsonVars, runVars>>
    /\ epc = "loop"
    /\ eidx < Len(ecompanies)
    /\ efailed' = efailed \cup {eidx + 1}
    /\ epc' = "raised"
    /\ UNCHANGED <<ecompanies, eidx, eleads, enriched>>

\* return leads
EnrichReturn ==
    /\ UNCHANGED <<coreVars, lateVars, callVars, jsonVars, runVars>>
    /\ epc = "loop"
    /\ eidx = Len(ecompanies)
    /\ enriched' = eleads
    /\ epc' = "returned"
    /\ UNCHANGED <<ecompanies, eidx, eleads, efailed>>

EnrichInit ==
    /\ ecompanies \in TypeLists(MaxEnriched)
    /\ eidx = 0
    /\ eleads = <<>>
    /\ efailed = {}
    /\ enriched = <<>>
    /\ epc = "loop"

EnrichNext ==
    \/ EnrichCompany
    \/ EnrichCompanyRaises
    \/ EnrichReturn

\* ------------------------------------------------ calls of external APIs
\* The functions that send a request to an external API.
Sites == {"ClaudeClient.chat", "AnthropicClient.chat", "SerpAPIClient.search",
          "fetch_clinical_trials_for_query"}

\* The functions whose body starts with rate_limiter.wait().
Limited == {"AnthropicClient.chat", "SerpAPIClient.search"}

\* The functions decorated with retry_with_backoff.
Retried == Sites \ {"ClaudeClient.chat"}

\* The functions that look their result up in a cache before they call.
Cached == {"ClaudeClient.chat", "fetch_clinical_trials_for_query"}

\* The functions that answer an exception other than
\* requests.RequestException with an empty list.
Swallowing == {"SerpAPIClient.search", "fetch_clinical_trials_for_query"}

\* max_attempts = max_attempts or config.max_retries; no function passes the
\* argument (0 stands for the absent argument).
max_attempts_of(arg, cfg) == IF arg # 0 THEN arg ELSE cfg

StopAfterLater(n, number) == number > n

\* tenacity's stop_after_attempt(max_attempts), asked after a failed attempt.
stop_after_attempt(n, number) == number >= n

\* What one attempt sends: the wait on the rate limiter where the function
\* has one, then the request.
AttemptEvents(s) ==
    IF s \in Limited THEN <<"wait", "request">> ELSE <<"request">>

\* The attempt returns the response.
AttemptReturns ==
    /\ UNCHANGED <<coreVars, lateVars, enrichVars, jsonVars, runVars>>
    /\ cpc = "attempt"
    /\ events' = events \o AttemptEvents(site)
    /\ outcomes' = Append(outcomes, "ok")
    /\ call_result' = "value"
    /\ cpc' = "done"
    /\ UNCHANGED <<site, max_retries, ncalls, attempt_number>>

\* The request succeeds but reading the response raises an exception that is
\* no RequestException: except Exception returns [].
AttemptSwallowsError ==
    /\ UNCHANGED <<coreVars, lateVars, enrichVars, jsonVars, runVars>>
    /\ cpc = "attempt"
    /\ site \in Swallowing
    /\ events' = events \o AttemptEvents(site)
    /\ outcomes' = Append(outcomes, "ok")
    /\ call_result' = "empty"
    /\ cpc' = "done"
    /\ UNCHANGED <<site, max_retries, ncalls, attempt_number>>

\* The attempt raises an exception of a class the decorator lists: tenacity
\* stops with RetryError after the last attempt and repeats the call else.
AttemptRaisesListed ==
    /\ UNCHANGED <<coreVars, lateVars, enrichVars, jsonVars, runVars>>
    /\ cpc = "attempt"
    /\ site \in Retried
    /\ events' = events \o AttemptEvents(site)
    /\ outcomes' = Append(outcomes, "listed")
    /\ IF stop_after_attempt(max_attempts_of(0, max_retries), attempt_number)
       THEN /\ call_result' = "RetryError"
            /\ cpc' = "done"
            /\ attempt_number' = attempt_number
       ELSE /\ call_result' = call_result
            /\ cpc' = cpc
            /\ attempt_number' = attempt_number + 1
    /\ UNCHANGED <<site, max_retries, ncalls>>

\* The attempt raises an exception the decorator does not list (for the
\* undecorated ClaudeClient.chat: any exception): it reaches the caller.
AttemptRaisesUnlisted ==
    /\ UNCHANGED <<coreVars, lateVars, enrichVars, jsonVars, runVars>>
    /\ cpc = "attempt"
    /\ events' = events \o AttemptEvents(site)
    /\ outcomes' = Append(outcomes, "unlisted")
    /\ call_result' = "raised"
    /\ cpc' = "done"
    /\ UNCHANGED <<site, max_retries, ncalls, attempt_number>>

\* The result is in the cache: the attempt returns it and no request is sent.
CacheHit ==
    /\ UNCHANGED <<coreVars, lateVars, enrichVars, jsonVars, runVars>>
    /\ cpc = "attempt"
    /\ site \in Cached
    /\ outcomes' = Append(outcomes, "ok")
    /\ call_result' = "value"
    /\ cpc' = "done"
    /\ UNCHANGED <<site, max_retries, ncalls, attempt_number, events>>

\* The function is called again.
NewCall ==
    /\ UNCHANGED <<coreVars, lateVars, enrichVars, jsonVars, runVars>>
    /\ cpc = "done"
    /\ ncalls < MaxCalls
    /\ ncalls' = ncalls + 1
    /\ attempt_number' = 1
    /\ outcomes' = <<>>
    /\ call_result' = "none"
    /\ cpc' = "attempt"
    /\ UNCHANGED <<site, max_retries, events>>

CallInit ==
    /\ site \in Sites
    /\ max_retries \in 0..MaxRetries
    /\ ncalls = 1
    /\ attempt_number = 1
    /\ outcomes = <<>>
    /\ events = <<>>
    /\ call_result = "none"
    /\ cpc = "attempt"

CallNext ==
    \/ AttemptReturns
    \/ AttemptSwallowsError
    \/ AttemptRaisesListed
    \/ AttemptRaisesUnlisted
    \/ CacheHit
    \/ NewCall

\* ---------------------------------------------------------------- chat_json
\* An LLM response is a sequence of tokens: the code fence (three back
\* quotes, written "~~~" here), the tag json, a
\* JSON document (an object or an array), text that is no JSON and holds no
\* brace or bracket, and a line break.
Fence == "~~~"
Tag == "json"
Doc == "{}"
Prose == "x"
Tokens == {Fence, Tag, Doc, Prose, "\n"}

\* json.loads: a document, white space around it allowed; anything else
\* raises json.JSONDecodeError.
JsonParses(text) == Strip(text) = <<Doc>>

\* text.lstrip(back quote): the leading back quotes removed.
LstripFences(text) ==
    LET other == {i \in 1..Len(text) : text[i] # Fence}
    IN  IF other = {} THEN <<>>
        ELSE SubSeq(text, CHOOSE i \in other : \A j \in other : i <= j,
                    Len(text))

\* response_text.split(fence)[1], for a text that starts with the fence: what
\* stands between the first fence and the next one (or the end).
BetweenFences(text) ==
    LET later == {i \in 2..Len(text) : text[i] = Fence}
    IN  IF later = {} THEN SubSeq(text, 2, Len(text))
        ELSE SubSeq(text, 2, (CHOOSE i \in later : \A j \in later : i <= j) - 1)

StartsWith(text, token) == text # <<>> /\ text[1] = token

\* ClaudeClient.chat_json, after chat() returned: the text between the fences
\* without the tag, parsed; ValueError when it does not parse.
ClaudeChatJson(text) ==
    LET stripped == Strip(text)
        inner == IF StartsWith(stripped, Fence)
                 THEN LET part == BetweenFences(stripped)
                      IN  Strip(IF StartsWith(part, Tag)
                                THEN SubSeq(part, 2, Len(part)) ELSE part)
                 ELSE stripped
    IN  IF JsonParses(inner)
        THEN [kind |-> "parsed", value |-> Strip(inner)]
        ELSE [kind |-> "ValueError", value |-> <<>>]

\* clean_json_string: fences and the language hint removed, then everything
\* before the first brace or bracket.
clean_json_string(raw) ==
    LET text0 == Strip(raw)
        text1 == IF StartsWith(text0, Fence)
                 THEN LET opened == LstripFences(text0)
                          hinted == IF StartsWith(opened, Tag)
                                    THEN Strip(SubSeq(opened, 2, Len(opened)))
                                    ELSE opened
                      IN  IF hinted # <<>> /\ hinted[Len(hinted)] = Fence
                          THEN Strip(SubSeq(hinted, 1, Len(hinted) - 1))
                          ELSE hinted
                 ELSE text0
        starts == {i \in 1..Len(text1) : text1[i] = Doc}
    IN  IF starts = {} THEN text1
        ELSE SubSeq(text1, CHOOSE i \in starts : \A j \in starts : i <= j,
                    Len(text1))

\* parse_llm_json(response, default={}): the parsed document, or the default
\* when the cleaned text does not parse.
parse_llm_json(raw) ==
    IF JsonParses(clean_json_string(raw))
    THEN [kind |-> "parsed", value |-> Strip(clean_json_string(raw))]
    ELSE [kind |-> "default", value |-> <<>>]

\* ClaudeClient.chat_json(...)
ChatJsonClaude ==
    /\ UNCHANGED <<coreVars, lateVars, enrichVars, callVars, runVars>>
    /\ jpc = "call"
    /\ client = "ClaudeClient"
    /\ json_result' = ClaudeChatJson(response_text)
    /\ jpc' = "done"
    /\ UNCHANGED <<client, response_text>>

\* BaseLLMClient.chat_json(...): parse_llm_json(response, default={})
ChatJsonBase ==
    /\ UNCHANGED <<coreVars, lateVars, enrichVars, callVars, runVars>>
    /\ jpc = "call"
    /\ client = "BaseLLMClient"
    /\ json_result' = parse_llm_json(response_text)
    /\ jpc' = "done"
    /\ UNCHANGED <<client, response_text>>

\* chat() raises (the API call failed): chat_json passes the exception on.
ChatRaises ==
    /\ UNCHANGED <<coreVars, lateVars, enrichVars, callVars, runVars>>
    /\ jpc = "call"
    /\ json_result' = [kind |-> "chat_raised", value |-> <<>>]
    /\ jpc' = "done"
    /\ UNCHANGED <<client, response_text>>

JsonInit ==
    /\ client \in {"ClaudeClient", "BaseLLMClient"}
    /\ response_text \in ListsUpTo(Tokens, MaxResponse)
    /\ json_result = [kind |-> "none", value |-> <<>>]
    /\ jpc = "call"

JsonNext ==
    \/ ChatJsonClaude
    \/ ChatJsonBase
    \/ ChatRaises

\* ---------------------------------------------------------------- run
\* What _generate_email can return: a dict with subject and body; None (the
\* LLM call or the parsing raised); a JSON value that is falsy; a dict
\* without 'subject'; a dict with 'subject' and without 'body'; a non-empty
\* JSON value that is no dict.
EmailData == {"email", "none", "falsy", "no_subject", "no_body", "not_a_dict"}

\* `if email_data:`
EmailDataTruthy(d) == d \notin {"none", "falsy"}

\* email_data['subject'] and email_data['body'] raise (KeyError, TypeError).
EmailDataRaises(d) == d \in {"no_subject", "no_body", "not_a_dict"}

\* `if not companies: return`
AfterDiscovered(n) == IF n = 0 THEN "stopped" ELSE "enrichment"

\* `if not researched_leads: return`
AfterResearched(k) == IF k = 0 THEN "stopped" ELSE "generation"

AfterReviewedAlways(a) == "export"

\* `if not approved_emails: return`
AfterReviewed(a) == IF a = 0 THEN "stopped" ELSE "export"

\* companies = self._discover_companies(query, max_leads) returns.
Discover ==
    /\ UNCHANGED <<coreVars, lateVars, enrichVars, callVars, jsonVars>>
    /\ phase = "discovery"
    /\ \E n \in 0..MaxRunLeads :
        /\ run_companies' = n
        /\ phase' = AfterDiscovered(n)
    /\ stage_log' = Append(stage_log, "discovery")
    /\ UNCHANGED <<batch_review, auto_approve, run_leads, run_researched, gen_idx,
                   last_email_data, run_emails, run_approved, exports,
                   exported_count, raised_in>>

\* _discover_companies raises; run has no handler.
DiscoverRaises ==
    /\ UNCHANGED <<coreVars, lateVars, enrichVars, callVars, jsonVars>>
    /\ phase = "discovery"
    /\ stage_log' = Append(stage_log, "discovery")
    /\ phase' = "raised"
    /\ raised_in' = "discovery"
    /\ UNCHANGED <<batch_review, auto_approve, run_companies, run_leads, run_researched,
                   gen_idx, last_email_data, run_emails, run_approved,
                   exports, exported_count>>

\* leads = self._enrich_with_contacts(companies) returns; an empty list of
\* leads does not end the run here.
RunEnrich ==
    /\ UNCHANGED <<coreVars, lateVars, enrichVars, callVars, jsonVars>>
    /\ phase = "enrichment"
    /\ \E m \in 0..MaxRunLeads : run_leads' = m
    /\ stage_log' = Append(stage_log, "enrichment")
    /\ phase' = "research"
    /\ UNCHANGED <<batch_review, auto_approve, run_companies, run_researched, gen_idx,
                   last_email_data, run_emails, run_approved, exports,
                   exported_count, raised_in>>

\* _enrich_with_contacts raises.
RunEnrichRaises ==
    /\ UNCHANGED <<coreVars, lateVars, enrichVars, callVars, jsonVars>>
    /\ phase = "enrichment"
    /\ stage_log' = Append(stage_log, "enrichment")
    /\ phase' = "raised"
    /\ raised_in' = "enrichment"
    /\ UNCHANGED <<batch_review, auto_approve, run_companies, run_leads, run_researched,
                   gen_idx, last_email_data, run_emails, run_approved,
                   exports, exported_count>>

\* researched_leads = self._conduct_research(leads) returns the leads that
\* have a note.
RunResearch ==
    /\ UNCHANGED <<coreVars, lateVars, enrichVars, callVars, jsonVars>>
    /\ phase = "research"
    /\ \E k \in 0..run_leads :
        /\ run_researched' = k
        /\ phase' = AfterResearched(k)
    /\ stage_log' = Append(stage_log, "research")
    /\ UNCHANGED <<batch_review, auto_approve, run_companies, run_leads, gen_idx,
                   last_email_data, run_emails, run_approved, exports,
                   exported_count, raised_in>>

\* _conduct_research raises (the manual session or the saving of the notes).
RunResearchRaises ==
    /\ UNCHANGED <<coreVars, lateVars, enrichVars, callVars, jsonVars>>
    /\ phase = "research"
    /\ stage_log' = Append(stage_log, "research")
    /\ phase' = "raised"
    /\ raised_in' = "research"
    /\ UNCHANGED <<batch_review, auto_approve, run_companies, run_leads, run_researched,
                   gen_idx, last_email_data, run_emails, run_approved,
                   exports, exported_count>>

\* _generate_and_review_emails: the batch or the sequential mode.
StartGeneration ==
    /\ UNCHANGED <<coreVars, lateVars, enrichVars, callVars, jsonVars>>
    /\ phase = "generation"
    /\ stage_log' = Append(stage_log, "generation")
    /\ phase' = IF batch_review THEN "generating" ELSE "sequential"
    /\ UNCHANGED <<batch_review, auto_approve, run_companies, run_leads, run_researched,
                   gen_idx, last_email_data, run_emails, run_approved,
                   exports, exported_count, raised_in>>

\* One turn of the generation loop of the batch mode: _generate_email
\* returns, a truthy value is appended as an email.
GenerateEmail ==
    /\ UNCHANGED <<coreVars, lateVars, enrichVars, callVars, jsonVars>>
    /\ phase = "generating"
    /\ gen_idx < run_researched
    /\ \E d \in EmailData :
        /\ ~EmailDataRaises(d)
        /\ last_email_data' = d
        /\ run_emails' = IF EmailDataTruthy(d)
                         THEN Append(run_emails, gen_idx + 1)
                         ELSE run_emails
    /\ gen_idx' = gen_idx + 1
    /\ stage_log' = Append(stage_log, "generate")
    /\ UNCHANGED <<batch_review, auto_approve, phase, run_companies, run_leads,
                   run_researched, run_approved, exports, exported_count,
                   raised_in>>

\* _generate_email returns a truthy value that has no subject or body: the
\* loop has no try, the exception leaves the stage and run.
GenerateMalformed ==
    /\ UNCHANGED <<coreVars, lateVars, enrichVars, callVars, jsonVars>>
    /\ phase = "generating"
    /\ gen_idx < run_researched
    /\ \E d \in EmailData :
        /\ EmailDataRaises(d)
        /\ last_email_data' = d
    /\ stage_log' = Append(stage_log, "generate")
    /\ phase' = "raised"
    /\ raised_in' = "generation"
    /\ UNCHANGED <<batch_review, auto_approve, run_companies, run_leads, run_researched,
                   gen_idx, run_emails, run_approved, exports,
                   exported_count>>

\* `if not all_emails: return []`, and run stops on the empty list.
NoEmails ==
    /\ UNCHANGED <<coreVars, lateVars, enrichVars, callVars, jsonVars>>
    /\ phase = "generating"
    /\ gen_idx = run_researched
    /\ run_emails = <<>>
    /\ run_approved' = 0
    /\ phase' = AfterReviewed(0)
    /\ UNCHANGED <<batch_review, auto_approve, run_companies, run_leads, run_researched,
                   gen_idx, last_email_data, run_emails, exports,
                   exported_count, stage_log, raised_in>>

\* review_emails_batch(all_emails) prompts and returns the approved emails.
RunReviewBatch ==
    /\ UNCHANGED <<coreVars, lateVars, enrichVars, callVars, jsonVars>>
    /\ phase = "generating"
    /\ gen_idx = run_researched
    /\ run_emails # <<>>
    /\ \E a \in 0..Len(run_emails) :
        /\ run_approved' = a
        /\ phase' = AfterReviewed(a)
    /\ stage_log' = Append(stage_log, "review")
    /\ UNCHANGED <<batch_review, auto_approve, run_companies, run_leads, run_researched,
                   gen_idx, last_email_data, run_emails, exports,
                   exported_count, raised_in>>

\* The sequential mode returns: every lead was generated and reviewed in
\* turn.
RunSequential ==
    /\ UNCHANGED <<coreVars, lateVars, enrichVars, callVars, jsonVars>>
    /\ phase = "sequential"
    /\ \E a \in 0..run_researched :
        /\ run_approved' = a
        /\ phase' = AfterReviewed(a)
    /\ stage_log' = Append(stage_log, "generate_and_review")
    /\ UNCHANGED <<batch_review, auto_approve, run_companies, run_leads, run_researched,
                   gen_idx, last_email_data, run_emails, exports,
                   exported_count, raised_in>>

\* The sequential mode raises (a generated value without subject or body).
RunSequentialRaises ==
    /\ UNCHANGED <<coreVars, lateVars, enrichVars, callVars, jsonVars>>
    /\ phase = "sequential"
    /\ stage_log' = Append(stage_log, "generate_and_review")
    /\ phase' = "raised"
    /\ raised_in' = "generation"
    /\ UNCHANGED <<batch_review, auto_approve, run_companies, run_leads, run_researched,
                   gen_idx, last_email_data, run_emails, run_approved,
                   exports, exported_count>>

\* self._export_results(approved_emails, query)
Export ==
    /\ UNCHANGED <<coreVars, lateVars, enrichVars, callVars, jsonVars>>
    /\ phase = "export"
    /\ exports' = exports + 1
    /\ exported_count' = run_approved
    /\ stage_log' = Append(stage_log, "export")
    /\ phase' = "complete"
    /\ UNCHANGED <<batch_review, auto_approve, run_companies, run_leads, run_researched,
                   gen_idx, last_email_data, run_emails, run_approved,
                   raised_in>>

RunInit ==
    /\ batch_review \in BOOLEAN
    /\ auto_approve \in BOOLEAN
    /\ phase = "discovery"
    /\ run_companies = 0
    /\ run_leads = 0
    /\ run_researched = 0
    /\ gen_idx = 0
    /\ last_email_data = "none"
    /\ run_emails = <<>>
    /\ run_approved = 0
    /\ exports = 0
    /\ exported_count = 0
    /\ stage_log = <<>>
    /\ raised_in = "none"

RunNext ==
    \/ Discover
    \/ DiscoverRaises
    \/ RunEnrich
    \/ RunEnrichRaises
    \/ RunResearch
    \/ RunResearchRaises
    \/ StartGeneration
    \/ GenerateEmail
    \/ GenerateMalformed
    \/ NoEmails
    \/ RunReviewBatch
    \/ RunSequential
    \/ RunSequentialRaises
    \/ Export

\* ----------------------------- the two review policies, side by side
\* _generate_and_review_emails_batch and _generate_and_review_emails_sequential
\* are given the same leads; _generate_email returns the same email for a
\* lead in both, and the operator has one decision per lead.
PolGenerated ==
    {[subject |-> s, body |-> b] : s \in LlmSubjects, b \in GenBodies}

PolDecisionsFor(g) ==
    {[kind |-> "approve"], [kind |-> "skip"]}
    \cup {[kind |-> "edit", subject |-> s, body |-> b] :
              s \in {g.subject} \cup EditSubjects,
              b \in {g.body} \cup EditBodies}

\* The loop of the batch mode that builds all_emails from the leads.
GeneratedEmails(g) ==
    [i \in 1..Len(g) |-> [id |-> i, subject |-> g[i].subject, body |-> g[i].body]]

FinalFormatFirst(es) ==
    IF es = <<>> THEN <<>>
    ELSE <<[lead |-> es[1].id, subject |-> es[1].subject, body |-> es[1].body]>>

\* "Convert to final format": the list the batch mode returns.
FinalFormat(es) ==
    [i \in 1..Len(es) |->
        [lead |-> es[i].id, subject |-> es[i].subject, body |-> es[i].body]]

PolBatchDecision == decisions[current_idx + 1]
PolSeqDecision == decisions[CurrentLead]

\* review_emails_batch is entered with the generated emails.
PolStartReview ==
    /\ bpc = "start"
    /\ StartReview

PolBatchApprove ==
    /\ bpc = "loop"
    /\ PolBatchDecision.kind = "approve"
    /\ Approve

PolBatchEdit ==
    /\ bpc = "loop"
    /\ PolBatchDecision.kind = "edit"
    /\ Edit
    /\ new_subject' = PolBatchDecision.subject
    /\ new_body' = PolBatchDecision.body

PolBatchSkip ==
    /\ bpc = "loop"
    /\ PolBatchDecision.kind = "skip"
    /\ Skip

\* The final confirmation of the batch review, answered yes.
PolConfirm ==
    /\ bpc = "gate"
    /\ Confirm
    /\ proceed' = "yes"

\* _generate_email in the sequential mode returns the lead's email.
PolGenerate ==
    /\ spc = "generate"
    /\ Generate
    /\ email_data' = [kind |-> "email",
                      subject |-> generated[CurrentLead].subject,
                      body |-> generated[CurrentLead].body]

PolReviewApprove ==
    /\ spc = "review"
    /\ PolSeqDecision.kind = "approve"
    /\ ReviewApprove

\* final_checklist, answered yes.
PolChecklist ==
    /\ spc = "checklist"
    /\ ChecklistAnswer
    /\ last_checklist'.answer

PolReviewEdit ==
    /\ spc = "review"
    /\ PolSeqDecision.kind = "edit"
    /\ ReviewEdit
    /\ review_result'.subject = PolSeqDecision.subject
    /\ review_result'.body = PolSeqDecision.body

PolReviewSkip ==
    /\ spc = "review"
    /\ PolSeqDecision.kind = "skip"
    /\ ReviewSkip

PolInit ==
    /\ \E n \in 0..MaxPolicyLeads :
        /\ generated \in [1..n -> PolGenerated]
        /\ decisions \in [1..n -> UNION {PolDecisionsFor(g) : g \in PolGenerated}]
        /\ \A i \in 1..n : decisions[i] \in PolDecisionsFor(generated[i])
        /\ all_emails = GeneratedEmails(generated)
        /\ leads = [i \in 1..n |-> i]
        /\ genCount = [i \in 1..n |-> 0]
        /\ spc = IF n = 0 THEN "done" ELSE "generate"
    /\ current_idx = 0
    /\ action = <<>>
    /\ new_subject = Null
    /\ new_body = Null
    /\ approved_emails = <<>>
    /\ proceed = "none"
    /\ result = <<>>
    /\ bpc = "start"
    /\ nactions = 0
    /\ used_previous = FALSE
    /\ lead_idx = 0
    /\ attempt = 0
    /\ email_data = [kind |-> "none"]
    /\ review_result = [status |-> "none"]
    /\ approved = <<>>
    /\ last_checklist = [lead |-> 0]
    /\ closed = FALSE

PolNext ==
    \/ PolStartReview
    \/ PolBatchApprove
    \/ PolBatchEdit
    \/ PolBatchSkip
    \/ PolConfirm
    \/ PolGenerate
    \/ PolReviewApprove
    \/ PolChecklist
    \/ PolReviewEdit
    \/ PolReviewSkip

\* ---------------------------------------------------------------- the caches
\* utils.cached (around fetch_clinical_trials_for_query and
\* SerperClient.search) and the cache inside ClaudeClient.chat, with the
\* cache enabled.  Both are a diskcache.Cache on a directory.
CacheFuncs ==
    {"fetch_clinical_trials_for_query", "SerperClient.search",
     "ClaudeClient.chat"}

\* The functions decorated with @cached.
Decorated == {"fetch_clinical_trials_for_query", "SerperClient.search"}

\* The keys of two different argument tuples (for ClaudeClient.chat: of two
\* different (system prompt, user prompt, model) triples), and the key of an
\* entry another call left in the directory.
CallKeys == {"k1", "k2"}
OtherKey == "other"

\* What the backend can answer: a list of results or a genuinely empty list;
\* for the LLM a text, which may be empty.
BackendLists == {"results", "empty"}
BackendTexts == {"text_a", "text_b", ""}

EmptyStore == [k \in {} |-> [value |-> "", fresh |-> TRUE]]

\* cache.get(key): None for an absent or expired entry.
cache_get(st, k) ==
    IF k \in DOMAIN st /\ st[k].fresh THEN st[k].value ELSE "None"

\* cache.set(key, value, expire=...)
cache_set(st, k, v) ==
    [kk \in DOMAIN st \cup {k} |->
        IF kk = k THEN [value |-> v, fresh |-> TRUE] ELSE st[kk]]

\* `if cache:` in ClaudeClient.chat: diskcache.Cache has __len__ (the number
\* of items, expired ones included) and no __bool__, so an empty cache is
\* falsy.
CacheTruthy(st) == DOMAIN st # {}

\* cache_key: json.dumps of the arguments; for a method the arguments start
\* with self, which json cannot serialize (TypeError).
KeySerializable(f) == f # "SerperClient.search"

\* `if result is not None` in the wrapper of cached.
WrapperHit(st, k) == cache_get(st, k) # "None"

\* `if cached:` in ClaudeClient.chat, inside `if cache:`.
ChatHitTest(st, k) ==
    CacheTruthy(st) /\ cache_get(st, k) \notin {"None", ""}

CallRecord(k, outcome, requested, stored, value) ==
    [key |-> k, outcome |-> outcome, requested |-> requested,
     stored |-> stored, result |-> value]

\* A decorated function is called and the wrapper finds the result.
CachedHit ==
    /\ UNCHANGED <<coreVars, enrichVars, callVars, jsonVars, runVars,
                   polVars, phaseVars>>
    /\ cfunc \in Decorated
    /\ KeySerializable(cfunc)
    /\ Len(clog) < MaxCacheCalls
    /\ \E k \in CallKeys :
        /\ WrapperHit(store, k)
        /\ clog' = Append(clog, CallRecord(k, "hit", FALSE, FALSE,
                                            cache_get(store, k)))
    /\ UNCHANGED <<cfunc, store>>

\* A miss; the function sends its request and returns the parsed results,
\* which the wrapper stores.
CachedMissReturns ==
    /\ UNCHANGED <<coreVars, enrichVars, callVars, jsonVars, runVars,
                   polVars, phaseVars>>
    /\ cfunc \in Decorated
    /\ KeySerializable(cfunc)
    /\ Len(clog) < MaxCacheCalls
    /\ \E k \in CallKeys, v \in BackendLists :
        /\ ~WrapperHit(store, k)
        /\ store' = cache_set(store, k, v)
        /\ clog' = Append(clog, CallRecord(k, "returned", TRUE, TRUE, v))
    /\ UNCHANGED cfunc

\* A miss; the request or the parsing of the response raises an exception
\* that is no RequestException: the function's `except Exception` returns []
\* and the wrapper stores it like any other value.
CachedMissDegrades ==
    /\ UNCHANGED <<coreVars, enrichVars, callVars, jsonVars, runVars,
                   polVars, phaseVars>>
    /\ cfunc \in Decorated
    /\ KeySerializable(cfunc)
    /\ Len(clog) < MaxCacheCalls
    /\ \E k \in CallKeys :
        /\ ~WrapperHit(store, k)
        /\ store' = cache_set(store, k, "empty")
        /\ clog' = Append(clog, CallRecord(k, "degraded", TRUE, TRUE, "empty"))
    /\ UNCHANGED cfunc

\* A miss; the request raises a RequestException, which the function
\* re-raises through the wrapper: cache.set is not reached.
CachedMissRaises ==
    /\ UNCHANGED <<coreVars, enrichVars, callVars, jsonVars, runVars,
                   polVars, phaseVars>>
    /\ cfunc \in Decorated
    /\ KeySerializable(cfunc)
    /\ Len(clog) < MaxCacheCalls
    /\ \E k \in CallKeys :
        /\ ~WrapperHit(store, k)
        /\ clog' = Append(clog, CallRecord(k, "raised", TRUE, FALSE, "None"))
    /\ UNCHANGED <<cfunc, store>>

\* The wrapper of a method: cache_key raises TypeError before the cache is
\* read and before the function is called.
CachedKeyRaises ==
    /\ UNCHANGED <<coreVars, enrichVars, callVars, jsonVars, runVars,
                   polVars, phaseVars>>
    /\ cfunc \in Decorated
    /\ ~KeySerializable(cfunc)
    /\ Len(clog) < MaxCacheCalls
    /\ \E k \in CallKeys :
        clog' = Append(clog, CallRecord(k, "raised", FALSE, FALSE, "None"))
    /\ UNCHANGED <<cfunc, store>>

\* ClaudeClient.chat returns the stored text.
ChatHit ==
    /\ UNCHANGED <<coreVars, enrichVars, callVars, jsonVars, runVars,
                   polVars, phaseVars>>
    /\ cfunc = "ClaudeClient.chat"
    /\ Len(clog) < MaxCacheCalls
    /\ \E k \in CallKeys :
        /\ ChatHitTest(store, k)
        /\ clog' = Append(clog, CallRecord(k, "hit", FALSE, FALSE,
                                            cache_get(store, k)))
    /\ UNCHANGED <<cfunc, store>>

\* ClaudeClient.chat sends the request and returns the response's text; it
\* stores the text under `if cache:`.
ChatRequest ==
    /\ UNCHANGED <<coreVars, enrichVars, callVars, jsonVars, runVars,
                   polVars, phaseVars>>
    /\ cfunc = "ClaudeClient.chat"
    /\ Len(clog) < MaxCacheCalls
    /\ \E k \in CallKeys, v \in BackendTexts :
        /\ ~ChatHitTest(store, k)
        /\ store' = IF CacheTruthy(store) THEN cache_set(store, k, v)
                                          ELSE store
        /\ clog' = Append(clog, CallRecord(k, "returned", TRUE,
                                            CacheTruthy(store), v))
    /\ UNCHANGED cfunc

\* The request of ClaudeClient.chat raises: nothing is stored.
ChatRequestRaises ==
    /\ UNCHANGED <<coreVars, enrichVars, callVars, jsonVars, runVars,
                   polVars, phaseVars>>
    /\ cfunc = "ClaudeClient.chat"
    /\ Len(clog) < MaxCacheCalls
    /\ \E k \in CallKeys :
        /\ ~ChatHitTest(store, k)
        /\ clog' = Append(clog, CallRecord(k, "raised", TRUE, FALSE, "None"))
    /\ UNCHANGED <<cfunc, store>>

\* The expiry time (24 hours) passes: the entries are still in the
\* directory, and get no longer returns them.
Expire ==
    /\ UNCHANGED <<coreVars, enrichVars, callVars, jsonVars, runVars,
                   polVars, phaseVars>>
    /\ \E k \in DOMAIN store : store[k].fresh
    /\ store' = [k \in DOMAIN store |-> [store[k] EXCEPT !.fresh = FALSE]]
    /\ UNCHANGED <<cfunc, clog>>

\* The cache directory is empty, or holds an entry of an earlier call.
CacheInit ==
    /\ cfunc \in CacheFuncs
    /\ store \in {EmptyStore,
                  [k \in {OtherKey} |-> [value |-> "results", fresh |-> TRUE]]}
    /\ clog = <<>>

CacheNext ==
    \/ CachedHit
    \/ CachedMissReturns
    \/ CachedMissDegrades
    \/ CachedMissRaises
    \/ CachedKeyRaises
    \/ ChatHit
    \/ ChatRequest
    \/ ChatRequestRaises
    \/ Expire

\* ------------------------------------------------------------ normalize_phase
\* How the word, the separator and the number of a phase can be spelt, and
\* what else the registry or a caller can pass.
PhaseWords == {<<"P", "h", "a", "s", "e">>, <<"P", "H", "A", "S", "E">>, <<"p", "h", "a", "s", "e">>}
PhaseSeps == {<<>>, <<" ">>}
Arabic == <<<<"1">>, <<"2">>, <<"3">>, <<"4">>>>
RomanUpper == <<<<"I">>, <<"I", "I">>, <<"I", "I", "I">>, <<"I", "V">>>>
RomanLower == <<<<"i">>, <<"i", "i">>, <<"i", "i", "i">>, <<"i", "v">>>>
PhasePrefixes == {<<>>, <<"E", "a", "r", "l", "y", " ">>, <<" ">>}
OtherPhaseTexts == {<<>>, <<"N", "A">>, <<"U", "n", "k", "n", "o", "w", "n">>, <<"N", "/", "A">>}

\* The spellings of phase n.
Spellings(n) ==
    {w \o sep \o num : w \in PhaseWords, sep \in PhaseSeps,
                       num \in {Arabic[n], RomanUpper[n], RomanLower[n]}}

PhaseTexts ==
    {p \o sp : p \in PhasePrefixes, sp \in UNION {Spellings(n) : n \in 1..4}}
    \cup OtherPhaseTexts

Unknown == <<"u", "n", "k", "n", "o", "w", "n">>
PhaseName(n) == <<"p", "h", "a", "s", "e", " ">> \o Arabic[n]

\* phase_map, in the order of the dict literal (the order of its iteration).
phase_map ==
    <<<<<<"p", "h", "a", "s", "e", "1">>, <<"p", "h", "a", "s", "e", " ", "1">>>>,
      <<<<"p", "h", "a", "s", "e", " ", "1">>, <<"p", "h", "a", "s", "e", " ", "1">>>>,
      <<<<"p", "h", "a", "s", "e", " ", "i">>, <<"p", "h", "a", "s", "e", " ", "1">>>>,
      <<<<"p", "h", "a", "s", "e", "2">>, <<"p", "h", "a", "s", "e", " ", "2">>>>,
      <<<<"p", "h", "a", "s", "e", " ", "2">>, <<"p", "h", "a", "s", "e", " ", "2">>>>,
      <<<<"p", "h", "a", "s", "e", " ", "i", "i">>, <<"p", "h", "a", "s", "e", " ", "2">>>>,
      <<<<"p", "h", "a", "s", "e", "3">>, <<"p", "h", "a", "s", "e", " ", "3">>>>,
      <<<<"p", "h", "a", "s", "e", " ", "3">>, <<"p", "h", "a", "s", "e", " ", "3">>>>,
      <<<<"p", "h", "a", "s", "e", " ", "i", "i", "i">>, <<"p", "h", "a", "s", "e", " ", "3">>>>,
      <<<<"p", "h", "a", "s", "e", "4">>, <<"p", "h", "a", "s", "e", " ", "4">>>>,
      <<<<"p", "h", "a", "s", "e", " ", "4">>, <<"p", "h", "a", "s", "e", " ", "4">>>>,
      <<<<"p", "h", "a", "s", "e", " ", "i", "v">>, <<"p", "h", "a", "s", "e", " ", "4">>>>>>

\* `for key, value in phase_map.items(): if key in phase: return value`,
\* from position i on; `return phase` after the loop.
RECURSIVE PhaseLoop(_, _)
PhaseLoop(text, i) ==
    IF i > Len(phase_map) THEN text
    ELSE IF Contains(text, phase_map[i][1]) THEN phase_map[i][2]
    ELSE PhaseLoop(text, i + 1)

\* normalize_phase(phase)
normalize_phase(arg) ==
    IF arg.kind = "none" \/ arg.text = <<>> THEN Unknown
    ELSE PhaseLoop(Strip(Lower(arg.text)), 1)

\* A call of normalize_phase with a string or None.
NormalizePhase ==
    /\ UNCHANGED <<coreVars, enrichVars, callVars, jsonVars, runVars,
                   polVars, cacheVars>>
    /\ npc = "call"
    /\ phase_arg.kind \in {"none", "str"}
    /\ phase_name' = normalize_phase(phase_arg)
    /\ npc' = "done"
    /\ UNCHANGED phase_arg

\* _parse_study: phase = phases[0] if phases else "Unknown", then
\* normalize_phase(phase).
ParseStudyPhase ==
    /\ UNCHANGED <<coreVars, enrichVars, callVars, jsonVars, runVars,
                   polVars, cacheVars>>
    /\ npc = "call"
    /\ phase_arg.kind \in {"phases", "no_phases"}
    /\ phase_name' =
          normalize_phase(IF phase_arg.kind = "phases"
                          THEN [kind |-> "str", text |-> phase_arg.text]
                          ELSE [kind |-> "str", text |-> <<"U", "n", "k", "n", "o", "w", "n">>])
    /\ npc' = "done"
    /\ UNCHANGED phase_arg

PhaseInit ==
    /\ phase_arg \in
          {[kind |-> "none", text |-> <<>>],
           [kind |-> "no_phases", text |-> <<>>]}
          \cup {[kind |-> k, text |-> x] :
                    k \in {"str", "phases"}, x \in PhaseTexts}
    /\ phase_name = <<>>
    /\ npc = "call"

PhaseNext ==
    \/ NormalizePhase
    \/ ParseStudyPhase

\* ------------------------------------------------------------- idle stages
SeqIdle ==
    /\ leads = <<>>
    /\ lead_idx = 0
    /\ attempt = 0
    /\ email_data = [kind |-> "none"]
    /\ review_result = [status |-> "none"]
    /\ approved = <<>>
    /\ spc = "idle"
    /\ genCount = <<>>
    /\ last_checklist = [lead |-> 0]
    /\ closed = FALSE

ResIdle ==
    /\ notes = <<>>
    /\ research_file = <<>>
    /\ file_state = "absent"
    /\ saved = {}
    /\ auto_research = TRUE
    /\ nleads = 0
    /\ ridx = 0
    /\ lead = <<>>
    /\ research = NoNote
    /\ researched = <<>>
    /\ rpc = "idle"
    /\ calls = {}
    /\ env = NoEnv
    /\ produced = <<>>
    /\ runs = 0

ListIdle ==
    /\ companies = <<>>
    /\ clist = <<>>
    /\ cprev = <<>>
    /\ trail = <<>>

NameIdle ==
    /\ raw_name = <<>>
    /\ raw_score = 0
    /\ cur_name = <<>>
    /\ norm_name = <<>>
    /\ norm_count = 0
    /\ company = [status |-> "none", company_name |-> <<>>,
                  fit_score_for_convexia |-> 0]

DiscIdle ==
    /\ max_companies = 0
    /\ nvariants = 0
    /\ variant = 0
    /\ all_companies = <<>>
    /\ contributions = <<>>
    /\ discovered = <<>>
    /\ dpc = "idle"

EnrichIdle ==
    /\ ecompanies = <<>>
    /\ eidx = 0
    /\ eleads = <<>>
    /\ efailed = {}
    /\ enriched = <<>>
    /\ epc = "idle"

CallIdle ==
    /\ site = "none"
    /\ max_retries = 0
    /\ ncalls = 0
    /\ attempt_number = 0
    /\ outcomes = <<>>
    /\ events = <<>>
    /\ call_result = "none"
    /\ cpc = "idle"

JsonIdle ==
    /\ client = "none"
    /\ response_text = <<>>
    /\ json_result = [kind |-> "none", value |-> <<>>]
    /\ jpc = "idle"

RunIdle ==
    /\ batch_review = FALSE
    /\ auto_approve = FALSE
    /\ phase = "idle"
    /\ run_companies = 0
    /\ run_leads = 0
    /\ run_researched = 0
    /\ gen_idx = 0
    /\ last_email_data = "none"
    /\ run_emails = <<>>
    /\ run_approved = 0
    /\ exports = 0
    /\ exported_count = 0
    /\ stage_log = <<>>
    /\ raised_in = "none"

PolIdle ==
    /\ generated = <<>>
    /\ decisions = <<>>

CacheIdle ==
    /\ cfunc = "none"
    /\ store = <<>>
    /\ clog = <<>>

PhaseIdle ==
    /\ phase_arg = [kind |-> "none", text |-> <<>>]
    /\ phase_name = <<>>
    /\ npc = "idle"

LateIdle == PolIdle /\ CacheIdle /\ PhaseIdle

IoIdle == EnrichIdle /\ CallIdle /\ JsonIdle /\ RunIdle /\ LateIdle

CoreIdle == BatchIdle /\ SeqIdle /\ ResIdle /\ ListIdle /\ NameIdle /\ DiscIdle

CoIdle == ListIdle /\ NameIdle /\ DiscIdle /\ IoIdle

\* ---------------------------------------------------------- specifications
InitBatch == BatchInit /\ SeqIdle /\ ResIdle /\ CoIdle

SpecBatch == InitBatch /\ [][BatchNext]_vars

InitSeq == BatchIdle /\ SeqInit /\ ResIdle /\ CoIdle

SpecSeq == InitSeq /\ [][SeqNext]_vars

InitResearch == BatchIdle /\ SeqIdle /\ ResInit /\ CoIdle

SpecResearch == InitResearch /\ [][ResNext]_vars

InitLists ==
    BatchIdle /\ SeqIdle /\ ResIdle /\ ListInit /\ NameIdle /\ DiscIdle
    /\ IoIdle

SpecLists == InitLists /\ [][ListNext]_vars

InitNames ==
    BatchIdle /\ SeqIdle /\ ResIdle /\ ListIdle /\ NameInit /\ DiscIdle
    /\ IoIdle

SpecNames == InitNames /\ [][NameNext]_vars

InitDiscovery ==
    BatchIdle /\ SeqIdle /\ ResIdle /\ ListIdle /\ NameIdle /\ DiscInit
    /\ IoIdle

SpecDiscovery == InitDiscovery /\ [][DiscNext]_vars

InitEnrich == CoreIdle /\ EnrichInit /\ CallIdle /\ JsonIdle /\ RunIdle /\ LateIdle

SpecEnrich == InitEnrich /\ [][EnrichNext]_vars
InitCalls == CoreIdle /\ EnrichIdle /\ CallInit /\ JsonIdle /\ RunIdle /\ LateIdle

InitJson == CoreIdle /\ EnrichIdle /\ CallIdle /\ JsonInit /\ RunIdle /\ LateIdle

InitRun == CoreIdle /\ EnrichIdle /\ CallIdle /\ JsonIdle /\ RunInit /\ LateIdle

SpecRun == InitRun /\ [][RunNext]_vars

SpecJson == InitJson /\ [][JsonNext]_vars

SpecCalls == InitCalls /\ [][CallNext]_vars

InitPolicies ==
    PolInit /\ ResIdle /\ ListIdle /\ NameIdle /\ DiscIdle /\ EnrichIdle
    /\ CallIdle /\ JsonIdle /\ RunIdle /\ CacheIdle /\ PhaseIdle

InitCache ==
    CoreIdle /\ EnrichIdle /\ CallIdle /\ JsonIdle /\ RunIdle /\ PolIdle
    /\ CacheInit /\ PhaseIdle

SpecCache == InitCache /\ [][CacheNext]_vars

InitPhase ==
    CoreIdle /\ EnrichIdle /\ CallIdle /\ JsonIdle /\ RunIdle /\ PolIdle
    /\ CacheIdle /\ PhaseInit

SpecPhase == InitPhase /\ [][PhaseNext]_vars

SpecPolicies == InitPolicies /\ [][PolNext]_vars

\* ------------------------------------------------------------------ claims
IsLast == current_idx = Len(all_emails) - 1
Advancing == {"approve", "edit", "skip"}

\* C1: once the navigation loop has ended and the operator has confirmed the
\* final gate, the returned list holds exactly the emails whose approved flag
\* is true, each once, in the order of the original list, and no email whose
\* flag is false.
C1_ReturnsExactlyApproved ==
    (bpc = "returned" /\ proceed = "yes") =>
        /\ \A i \in 1..Len(all_emails) :
              all_emails[i].approved <=>
                  (\E j \in 1..Len(result) : result[j] = all_emails[i])
        /\ \A j \in 1..Len(result) :
              \E i \in 1..Len(all_emails) : result[j] = all_emails[i]
        /\ \A j, k \in 1..Len(result) : j < k => result[j].id < result[k].id

\* Emails 1 and 3 of three were approved, email 2 was not, and the gate was
\* confirmed.
C1_Witness ==
    /\ bpc = "returned"
    /\ proceed = "yes"
    /\ Len(all_emails) = 3
    /\ all_emails[1].approved
    /\ ~all_emails[2].approved
    /\ all_emails[3].approved
    /\ Len(result) = 2

\* C2: a non-empty list is returned only after a yes at the final
\* confirmation, and a no at the confirmation returns the empty list whatever
\* the approved flags are.
C2_GateDecides ==
    /\ result # <<>> => (bpc = "returned" /\ proceed = "yes")
    /\ proceed = "no" => (bpc = "returned" /\ result = <<>>)

\* The operator declined the gate with two emails approved.
C2_Witness ==
    /\ bpc = "returned"
    /\ proceed = "no"
    /\ Len(approved_emails) = 2
    /\ result = <<>>

\* C3: the flags start false/false; Approve sets approved on the current
\* email, Edit overwrites its subject and body with the operator's text and
\* sets approved and edited, Skip/Remove approval clears approved; Previous,
\* Next, Done and the confirmation change no email; no step changes another
\* email than the current one.
C3_Step ==
    /\ bpc = "start" =>
          \A i \in 1..Len(all_emails) :
              /\ i \in DOMAIN all_emails'
              /\ all_emails'[i].approved = FALSE
              /\ all_emails'[i].edited = FALSE
              /\ all_emails'[i].subject = all_emails[i].subject
              /\ all_emails'[i].body = all_emails[i].body
    /\ bpc = "loop" =>
          LET b == Branch(action')
              k == current_idx + 1
              old == all_emails[k]
              new == all_emails'[k]
          IN  /\ Len(all_emails') = Len(all_emails)
              /\ \A i \in 1..Len(all_emails) :
                    i # k => all_emails'[i] = all_emails[i]
              /\ b = "approve" => new = [old EXCEPT !.approved = TRUE]
              /\ b = "edit" =>
                    new = [old EXCEPT !.subject = new_subject',
                                      !.body = new_body',
                                      !.approved = TRUE,
                                      !.edited = TRUE]
              /\ b = "skip" => new = [old EXCEPT !.approved = FALSE]
              /\ b \in {"previous", "next", "done"} => new = old
              /\ b # "none"
    /\ bpc \in {"gate", "returned"} => all_emails' = all_emails

C3_FlagTransitions == [][C3_Step]_vars

\* Email 1 was approved as generated, email 2 was edited and its approval
\* then removed.
C3_Witness ==
    /\ bpc = "loop"
    /\ Len(all_emails) = 3
    /\ all_emails[1].approved /\ ~all_emails[1].edited
    /\ all_emails[2].edited /\ ~all_emails[2].approved
    /\ all_emails[2].subject = "S_edit"
    /\ action = LblRemove

\* C4: the loop ends exactly on Done, or on approve, edit or skip at the last
\* index; approve, edit and skip on an earlier index advance by one; Previous
\* moves by -1 and Next by +1; the position changes in no other way.
C4_Step ==
    /\ bpc = "loop" =>
          LET b == Branch(action')
          IN  /\ (bpc' # "loop") <=>
                    (b = "done" \/ (b \in Advancing /\ IsLast))
              /\ (b \in Advancing /\ ~IsLast) => current_idx' = current_idx + 1
              /\ (b \in Advancing /\ IsLast) => current_idx' = current_idx
              /\ b = "previous" => current_idx' = current_idx - 1
              /\ b = "next" => current_idx' = current_idx + 1
              /\ b = "done" => current_idx' = current_idx
    /\ bpc \in {"gate", "returned"} =>
          (current_idx' = current_idx /\ bpc' # "loop")

C4_LoopEndAndPosition == [][C4_Step]_vars

\* The loop was ended by skipping the last of three emails, after the first
\* had been approved.
C4_Witness ==
    /\ bpc \in {"gate", "returned"}
    /\ Len(all_emails) = 3
    /\ IsLast
    /\ Branch(action) = "skip"
    /\ all_emails[1].approved

\* The emails a lead has contributed to the approved list.
Contributed(l) == {j \in 1..Len(approved) : approved[j].lead = l}

\* C5: for every lead the email generator is invoked at most 3 times and the
\* lead contributes at most one email to the approved list.
C5_AtMostThreeAttemptsOneEmail ==
    \A l \in 1..Len(leads) :
        /\ genCount[l] <= 3
        /\ Cardinality(Contributed(l)) <= 1

\* Lead 1 used all three attempts and then contributed its email.
C5_Witness ==
    /\ Len(leads) = 2
    /\ genCount[1] = 3
    /\ Cardinality(Contributed(1)) = 1
    /\ genCount[2] >= 1

\* C6: once the operator has answered approve or edit for a lead, no further
\* email is generated and no further review prompt is shown for that lead,
\* whatever the answer at the final checklist.
C6_ApproveOrEditEndsLead ==
    closed => spc \notin {"generate", "review"}

\* C7: an approved (non-edited) email is appended only when final_checklist,
\* evaluated on its subject and body, returned true; an edited email is
\* appended with the operator's subject and body and final_checklist is not
\* evaluated for it.
C7_Step ==
    approved' # approved =>
        /\ Len(approved') = Len(approved) + 1
        /\ SubSeq(approved', 1, Len(approved)) = approved
        /\ LET e == approved'[Len(approved')]
           IN  \/ /\ spc = "checklist"
                  /\ review_result.status = "approved"
                  /\ last_checklist'.lead = e.lead
                  /\ last_checklist'.attempt = attempt
                  /\ last_checklist'.subject = e.subject
                  /\ last_checklist'.body = e.body
                  /\ last_checklist'.answer = TRUE
                  /\ e.subject = email_data.subject
                  /\ e.body = email_data.body
                  /\ e.lead = CurrentLead
               \/ /\ spc = "review"
                  /\ review_result'.status = "edited"
                  /\ e.subject = review_result'.subject
                  /\ e.body = review_result'.body
                  /\ e.lead = CurrentLead
                  /\ last_checklist' = last_checklist

C7_ChecklistGatesApproved ==
    [][C7_Step /\ (last_checklist' # last_checklist => spc = "checklist")]_vars

\* An email was appended although the checks fail on its body: the operator
\* overrode the checklist.  An edited email of lead 2 follows it.
C7_Witness ==
    /\ Len(approved) = 2
    /\ approved[1].body = "B_generic"
    /\ approved[2].subject = "S_edit"
    /\ last_checklist.lead = 1
    /\ last_checklist.all_passed = FALSE
    /\ last_checklist.answer = TRUE

\* C8: regenerate on attempt 1 or 2 leads to exactly one new generation for
\* the same lead, one attempt later; regenerate on attempt 3 ends the lead's
\* loop with nothing contributed, as skip does.
C8_Step ==
    /\ (spc = "review" /\ review_result'.status = "regenerate") =>
          /\ approved' = approved
          /\ genCount' = genCount
          /\ IF attempt < 2
             THEN /\ spc' = "generate"
                  /\ lead_idx' = lead_idx
                  /\ attempt' = attempt + 1
             ELSE /\ lead_idx' = lead_idx + 1
                  /\ attempt' = 0
                  /\ spc' = IF lead_idx + 1 < Len(leads) THEN "generate" ELSE "done"
    /\ spc = "generate" =>
          /\ genCount' = [genCount EXCEPT ![CurrentLead] = @ + 1]
          /\ approved' = approved

C8_Regenerate == [][C8_Step]_vars

\* The third regenerate of lead 1 ended its loop with no email.
C8_Witness ==
    /\ review_result.status = "regenerate"
    /\ lead_idx = 1
    /\ genCount[1] = 3
    /\ approved = <<>>
    /\ spc = "generate"

\* C9: a skip decision, and a null result of the generator, end the current
\* lead's loop with nothing contributed; the emails of earlier leads stay and
\* the next lead is processed.
C9_Step ==
    /\ (\/ spc = "review" /\ review_result'.status = "skipped"
        \/ spc = "generate" /\ email_data'.kind = "null") =>
          /\ approved' = approved
          /\ lead_idx' = lead_idx + 1
          /\ attempt' = 0
          /\ spc' = IF lead_idx + 1 < Len(leads) THEN "generate" ELSE "done"
    /\ lead_idx' >= lead_idx
    /\ Len(approved) <= Len(approved')
    /\ SubSeq(approved', 1, Len(approved)) = approved
    /\ \A j \in (Len(approved) + 1)..Len(approved') :
          approved'[j].lead = CurrentLead

C9_SkipAndNull == [][C9_Step]_vars

\* Lead 1 contributed an email; the generator then returned null for lead 2,
\* and the run ended with lead 1's email kept.
C9_Witness ==
    /\ Len(leads) = 2
    /\ spc = "done"
    /\ email_data.kind = "null"
    /\ Len(approved) = 1
    /\ approved[1].lead = 1

\* C10: when research runs for a (company, contact) pair for which a note
\* was produced before, in this run or an earlier one, it returns that note
\* and invokes neither the LLM, nor the news search, nor an operator prompt.
C10_Step ==
    (rpc = "lead" /\ rpc' # "raised" /\ ridx' = ridx + 1
        /\ produced[CurrentPair] # NoNote) =>
        /\ research' = produced[CurrentPair]
        /\ calls' = {}

C10_ResearchIdempotent == [][C10_Step]_vars


\* C11: in manual mode, when the operator is not ready or selects the skip
\* confidence, the session returns None, the notes are unchanged in memory
\* and on disk, and has_research stays false for the lead.
C11_Step ==
    (/\ rpc = "lead" /\ ~auto_research
     /\ ~has_research(CurrentPair[1], CurrentPair[2])
     /\ calls' = {"llm", "prompt"}
     /\ (~env'.ready \/ env'.confidence = ConfSkip)) =>
        /\ research' = NoNote
        /\ ridx' = ridx + 1
        /\ notes' = notes
        /\ research_file' = research_file
        /\ file_state' = file_state
        /\ LeadKey(CurrentPair[1], CurrentPair[2]) \notin DOMAIN notes'

C11_SkipLeavesNoNote == [][C11_Step]_vars

C11_Witness ==
    /\ ~auto_research /\ calls = {"llm", "prompt"}
    /\ env.ready /\ env.confidence = ConfSkip
    /\ research = NoNote /\ ridx > 0 /\ notes = <<>>

\* C12: when the manual session returns a note, the note is by then stored
\* under the lead's key in the notes and the mapping with it is written to
\* the file.
C12_Step ==
    (/\ ~auto_research /\ ridx' = ridx + 1
     /\ calls' = {"llm", "prompt"}
     /\ research' # NoNote) =>
        LET key == LeadKey(CurrentPair[1], CurrentPair[2])
        IN  /\ key \in DOMAIN notes' /\ notes'[key] = research'
            /\ file_state' = "valid"
            /\ key \in DOMAIN research_file'
            /\ research_file'[key] = research'
            /\ research_file' = notes'

C12_StoredBeforeReturn == [][C12_Step]_vars

C12_Witness ==
    /\ ~auto_research /\ calls = {"llm", "prompt"} /\ rpc = "lead"
    /\ research # NoNote /\ ridx > 0
    /\ file_state = "valid" /\ research_file = notes

\* C13: a note once saved is in the notes of every run that starts later,
\* also when the process crashed during a later _save_notes.
C13_Step ==
    (runs' = runs + 1) => \A k \in saved : k \in DOMAIN notes'

C13_SavedStaysVisible == [][C13_Step]_vars

\* C14: in auto mode _auto_research returns a note with auto_generated true
\* for every outcome of the news lookup and of the LLM call: a raising news
\* lookup counts as no news, and an LLM call that raises or returns no JSON
\* object yields the fallback note.
C14_Step ==
    (/\ rpc = "lead" /\ auto_research
     /\ calls' = {"news", "llm", "prompt"}) =>
        /\ rpc' # "raised"
        /\ research' # NoNote
        /\ research'.auto_generated
        /\ env'.news = "raises" => research'.news \in {"empty", "no_news"}
        /\ env'.llm # "object" => research'.insights = "fallback"
        /\ env'.llm = "object" => research'.insights = "llm"

Pick(cs, keep) ==
    [k \in 1..Cardinality(keep) |->
        cs[CHOOSE i \in keep : Cardinality({j \in keep : j <= i}) = k]]

\* The trimmed lower-cased name of a record whose name is a string.
TrimmedLower(c) == Lower(Strip(c.company_name))

\* The positions of the records that are the first with their name.
FirstOfName(cs) ==
    {i \in 1..Len(cs) :
        \A j \in 1..(i - 1) : TrimmedLower(cs[j]) # TrimmedLower(cs[i])}

Dedups == {"agent_dedup", "utils_dedup"}

C16_FirstPerName ==
    (/\ Len(trail) = 1 /\ trail[1] \in Dedups
     /\ \A i \in 1..Len(companies) :
            /\ companies[i].name_kind = "str"
            /\ companies[i].company_name # <<>>) =>
        clist = Pick(companies, FirstOfName(companies))

\* C16, amended: the same on a list whose names are non-empty after
\* trimming; a record whose name is only whitespace is dropped.
C16_FirstPerTrimmedName ==
    (/\ Len(trail) = 1 /\ trail[1] \in Dedups
     /\ \A i \in 1..Len(companies) :
            /\ companies[i].name_kind = "str"
            /\ Strip(companies[i].company_name) # <<>>) =>
        /\ clist = Pick(companies, FirstOfName(companies))
        /\ \A i, j \in 1..Len(clist) :
            i # j => TrimmedLower(clist[i]) # TrimmedLower(clist[j])

C16_Witness ==
    /\ trail = <<"utils_dedup">>
    /\ Len(companies) = 3 /\ Len(clist) = 2
    /\ \A i \in 1..3 : Strip(companies[i].company_name) # <<>>
    /\ TrimmedLower(companies[1]) = TrimmedLower(companies[3])
    /\ companies[1].fit_score # companies[3].fit_score
    /\ clist[1] = companies[1]

\* The exclusion predicate of the synthesis filter, on a record.
Excluded(c) ==
    \/ c.name_kind = "str" /\ is_big_pharma(c.company_name)
    \/ c.company_size = "large"

\* The positions of the records whose name is not null.
Named(cs) == {i \in 1..Len(cs) : cs[i].name_kind # "none"}

\* C19: of the records the LLM returned, the batch _synthesize_companies
\* returns those that are not excluded (no denylist entry in the name, size
\* not large), and only them, in their original order.
C19_FilterDropsExactlyExcluded ==
    (trail = <<"filter">>) =>
        Pick(clist, Named(clist)) =
            Pick(companies,
                 {i \in Named(companies) : ~Excluded(companies[i])})

\* C17: normalize_company_name returns its argument when applied to a value
\* it returned, also for names that end with several legal suffixes.
C17_NormalizeFixedPoint ==
    norm_count >= 2 => norm_name = cur_name

\* C18: a Company that was constructed has a non-empty company_name.
C18_ConstructedNameNonEmpty ==
    company.status = "ok" => company.company_name # <<>>

\* C20: every company in the list _discover_companies returns has a fit
\* score from 0 to 100.
C20_ReturnedScoresInRange ==
    dpc = "returned" =>
        \A i \in 1..Len(discovered) :
            discovered[i].fit_score >= 0 /\ discovered[i].fit_score <= 100

\* The place record i of the pool u takes when the pool is ordered by
\* score, highest first, records of equal score in discovery order.
PlaceOf(u, i) ==
    1 + Cardinality({j \in 1..Len(u) :
                       \/ SortKey(u[j]) > SortKey(u[i])
                       \/ SortKey(u[j]) = SortKey(u[i]) /\ j < i})

\* C21: the list discovery returns is the first max_companies records of the
\* deduplicated pool ordered by fit score from high to low, a record without
\* a score counting as 0 and records of equal score keeping their discovery
\* order; it is never longer than max_companies.
C21_ReturnedIsTopOfStableRanking ==
    dpc = "returned" =>
        LET u == AgentDedup(all_companies)
        IN  /\ Len(discovered) <= max_companies
            /\ Len(discovered) = IF max_companies < Len(u)
                                 THEN max_companies ELSE Len(u)
            /\ \A i \in 1..Len(u) :
                  PlaceOf(u, i) <= Len(discovered) =>
                      discovered[PlaceOf(u, i)] = u[i]

\* A returned list that was cut, holds two records of equal score, and
\* whose pool had a record without a score.
C21_Witness ==
    /\ dpc = "returned"
    /\ Len(discovered) >= 2
    /\ SortKey(discovered[1]) = SortKey(discovered[2])
    /\ LET u == AgentDedup(all_companies)
       IN  /\ Len(discovered) < Len(u)
           /\ \E i \in 1..Len(u) : u[i].score_kind = "missing"

\* An LLM call of the discovery failed: it raised, or its answer (also one
\* that chat_json could parse) did not have the expected shape.
FailedSource(i) == contributions[i].kind # "list"

\* The records of the pool that source i added.
RECURSIVE AddedBefore(_)
AddedBefore(i) ==
    IF i = 1 THEN 0 ELSE AddedBefore(i - 1) + Len(contributions[i - 1].added)

\* C22: a query variant whose LLM synthesis fails (the call raises, or its
\* answer has an unexpected shape) adds nothing to the pool and does not end
\* the discovery: the next variant or the VC sub-query follows, the pool
\* holds in order what the calls added, and the returned list is drawn from
\* it (empty only if the pool is empty or max_companies is 0).
C22_FailedVariantAddsNothing ==
    [][/\ contributions' # contributions =>
            LET c == contributions'[Len(contributions')]
            IN  /\ all_companies' = all_companies \o c.added
                /\ c.kind # "list" =>
                      /\ c.added = <<>>
                      /\ dpc' \in {"variants", "vc", "finish"}
       /\ (dpc' = "returned" /\ dpc # "returned") =>
            /\ \A i \in 1..Len(contributions) :
                  /\ FailedSource(i) => contributions[i].added = <<>>
                  /\ \A k \in 1..Len(contributions[i].added) :
                        all_companies[AddedBefore(i) + k]
                            = contributions[i].added[k]
            /\ discovered' = <<>>
                  <=> (all_companies = <<>> \/ max_companies = 0)]_vars

\* A discovery with two variants that returned companies although the
\* synthesis of its first variant raised: the second variant and the VC
\* sub-query both added records.
C22_Witness ==
    /\ dpc = "returned"
    /\ Len(contributions) = 3
    /\ contributions[1].kind = "raises"
    /\ contributions[2].added # <<>>
    /\ contributions[3].added # <<>>
    /\ Len(discovered) = 2

\* C23: _discover_companies never raises, whatever fails among the web
\* search, the clinical-trials search and the LLM calls of the variants and
\* of the VC sub-query; it returns a list.
C23_DiscoveryNeverRaises ==
    dpc # "raised"

\* C24: a failure to find the decision makers of one company does not end
\* the enrichment: the company adds no lead, the leads of earlier companies
\* are kept and the later companies are still enriched.
C24_ContactFailureDoesNotAbort ==
    efailed # {} =>
        /\ epc \in {"loop", "returned"}
        /\ \A i \in 1..Len(eleads) : eleads[i].company \notin efailed

\* The positions of the records that are malformed: the company_name is
\* null where a string is expected.
Malformed(cs) == {i \in 1..Len(cs) : cs[i].name_kind = "none"}

\* C25: when one record of a synthesized batch is malformed, only that record
\* is dropped: every well-formed sibling that is not excluded is in the batch
\* _synthesize_companies returns.
C25_MalformedRecordDroppedAlone ==
    (trail = <<"filter">> /\ Cardinality(Malformed(companies)) = 1) =>
        \A i \in 1..Len(companies) :
            (i \notin Malformed(companies) /\ ~Excluded(companies[i]))
                => \E j \in 1..Len(clist) : clist[j] = companies[i]

\* C26: every request to an external API (LLM, web search, clinical trials,
\* each retry attempt included) directly follows a wait on the rate limiter.
C26_RequestsPassTheLimiter ==
    \A i \in 1..Len(events) :
        events[i] = "request" => (i > 1 /\ events[i - 1] = "wait")

\* The attempts of the current call of a decorated function obey the retry
\* rule with at most n attempts: every attempt but the last raised a listed
\* exception; a call that ended made at least one attempt and ended with the
\* result of a successful attempt, with the unlisted exception, or, after n
\* or more failed attempts, with an error instead of a value.
RetryRule(n) ==
    site \in Retried =>
        /\ Len(outcomes) <= n
        /\ \A i \in 1..(Len(outcomes) - 1) : outcomes[i] = "listed"
        /\ cpc = "attempt" =>
              /\ attempt_number = Len(outcomes) + 1
              /\ \A i \in 1..Len(outcomes) : outcomes[i] = "listed"
        /\ cpc = "done" =>
              /\ Len(outcomes) >= 1
              /\ Len(outcomes) = attempt_number
              /\ outcomes[Len(outcomes)] = "ok"
                    <=> call_result \in {"value", "empty"}
              /\ outcomes[Len(outcomes)] = "unlisted"
                    <=> call_result = "raised"
              /\ outcomes[Len(outcomes)] = "listed"
                    <=> call_result = "RetryError"
              /\ call_result = "RetryError" => Len(outcomes) >= n

\* C27 as stated: a call wrapped by retry_with_backoff is attempted at least
\* once and at most max_attempts times, is repeated only after a listed
\* exception, returns the first success, does not repeat after an unlisted
\* exception, and raises after the last failed attempt.
C27_RetryAtMostMaxAttempts ==
    RetryRule(max_attempts_of(0, max_retries))

\* C27, amended: the same with at most max(1, max_attempts) attempts, where
\* max_attempts is config.max_retries when the argument is absent or 0: a
\* count of 0 still gives one attempt.
C27_RetryAtMostMaxAttemptsOrOne ==
    RetryRule(IF max_attempts_of(0, max_retries) >= 1
              THEN max_attempts_of(0, max_retries) ELSE 1)

\* A web search that failed with a listed exception on each of its three
\* attempts and ended with an error.
C27_Witness ==
    /\ site = "SerpAPIClient.search"
    /\ max_retries = 3
    /\ outcomes = <<"listed", "listed", "listed">>
    /\ call_result = "RetryError"
    /\ cpc = "done"

\* The response without its code fence: for a response that starts with a
\* fence, the fence and the optional tag json are removed, and a fence at
\* the end as well.
FenceStripped(text) ==
    LET stripped == Strip(text)
        rest == SubSeq(stripped, 2, Len(stripped))
        untagged == IF StartsWith(rest, Tag)
                    THEN SubSeq(rest, 2, Len(rest)) ELSE rest
    IN  IF ~StartsWith(stripped, Fence) THEN stripped
        ELSE IF untagged # <<>> /\ untagged[Len(untagged)] = Fence
             THEN Strip(SubSeq(untagged, 1, Len(untagged) - 1))
             ELSE Strip(untagged)

\* C28: when chat() returned a response, chat_json returns a value only if
\* the response without its code fence parses as JSON, and then the parsed
\* content; otherwise it fails with an error and returns nothing.
C28_ChatJsonFailsOnNonJson ==
    (jpc = "done" /\ json_result.kind # "chat_raised") =>
        IF JsonParses(FenceStripped(response_text))
        THEN json_result = [kind |-> "parsed", value |-> <<Doc>>]
        ELSE json_result.kind \notin {"parsed", "default"}

\* C29: _generate_email yields a value with subject and body, or null; a
\* response that is valid JSON without the subject/body shape makes the lead
\* add no email and does not end the stage: the remaining leads are still
\* generated and the review follows.
C29_MalformedEmailDoesNotAbort ==
    EmailDataRaises(last_email_data) =>
        /\ phase = "generating"
        /\ \A i \in 1..Len(run_emails) : run_emails[i] # gen_idx

\* The steps of run that may directly follow one another.
RunOrder ==
    {<<"discovery", "enrichment">>, <<"enrichment", "research">>,
     <<"research", "generation">>, <<"generation", "generate">>,
     <<"generate", "generate">>, <<"generate", "review">>,
     <<"generation", "generate_and_review">>,
     <<"review", "export">>, <<"generate_and_review", "export">>}

Count(log, e) == Cardinality({i \in 1..Len(log) : log[i] = e})

\* C30: run executes discovery, enrichment, research, generation/review and
\* export in this order, each after the previous one returned; in batch
\* mode an email was generated for every lead before the review prompts;
\* export is called at most once and only with a non-empty list of approved
\* emails; the run stops without export as soon as discovery, research or
\* review yielded an empty result.
C30_StagesInOrder ==
    /\ stage_log # <<>> => stage_log[1] = "discovery"
    /\ \A i \in 2..Len(stage_log) :
          <<stage_log[i - 1], stage_log[i]>> \in RunOrder
    /\ Count(stage_log, "review") > 0 =>
          /\ batch_review
          /\ Count(stage_log, "generate") = run_researched
    /\ exports <= 1
    /\ exports = Count(stage_log, "export")
    /\ exports = 1 => exported_count > 0
    /\ phase \in {"export", "complete"} =>
          run_companies > 0 /\ run_researched > 0 /\ run_approved > 0
    /\ (stage_log # <<>> /\ run_companies = 0 /\ raised_in = "none") =>
          phase = "stopped" /\ stage_log = <<"discovery">>
    /\ (Count(stage_log, "research") > 0 /\ run_researched = 0
            /\ raised_in = "none") =>
          phase = "stopped" /\ stage_log[Len(stage_log)] = "research"
    /\ (stage_log # <<>> /\ run_approved = 0 /\ raised_in = "none"
            /\ stage_log[Len(stage_log)] \in {"review", "generate_and_review"})
          => phase = "stopped"
    /\ phase = "stopped" => exports = 0

\* A run in batch mode that generated the emails of two leads, then
\* reviewed them and exported once.
C30_Witness ==
    /\ batch_review
    /\ phase = "complete"
    /\ stage_log = <<"discovery", "enrichment", "research", "generation",
                     "generate", "generate", "review", "export">>
    /\ exports = 1
    /\ exported_count = 2

\* C31: when the agent was constructed with auto_approve true, no review
\* prompt is shown to the operator, and every generated email is approved
\* and exported.
C31_AutoApproveSkipsReview ==
    auto_approve =>
        /\ Count(stage_log, "review") = 0
        /\ Count(stage_log, "generate_and_review") = 0
        /\ (phase \in {"stopped", "complete"} /\ raised_in = "none"
                /\ run_emails # <<>>) =>
              /\ exports = 1
              /\ exported_count = Len(run_emails)

\* C32: given the same leads, the same generated email per lead and the same
\* decision per lead (approve, edit with the same text, or skip), with every
\* confirmation answered yes, the batch mode and the sequential mode return
\* the same sequence of (lead, subject, body) records.
C32_PoliciesAgree ==
    (bpc = "returned" /\ spc = "done") => FinalFormat(result) = approved

\* Both policies returned for two leads, the first edited and the second
\* approved as generated; both are in the output.
C32_Witness ==
    /\ bpc = "returned"
    /\ spc = "done"
    /\ Len(decisions) = 2
    /\ decisions[1].kind = "edit"
    /\ decisions[1].subject # generated[1].subject
    /\ decisions[2].kind = "approve"
    /\ Len(approved) = 2
    /\ Len(result) = 2

Reviewing == bpc \in {"loop", "gate", "returned"} /\ all_emails # <<>>

\* C33 as stated: in every state of the batch review each email is
\* undecided (approved false, edited false), approved (true, false) or
\* approved with edits (true, true): edited never holds with approved false.
C33_ThreeStates ==
    Reviewing =>
        \A i \in 1..Len(all_emails) :
            all_emails[i].edited => all_emails[i].approved

C33_Step ==
    bpc = "loop" =>
        \A i \in 1..Len(all_emails) :
            LET old == all_emails[i]
                new == all_emails'[i]
            IN  /\ old.edited => new.edited
                /\ (new.edited /\ ~old.edited) =>
                      /\ Branch(action') = "edit"
                      /\ i = current_idx + 1
                      /\ new.approved
                /\ (new.edited /\ ~new.approved) =>
                      \/ old.edited /\ ~old.approved
                      \/ /\ old.edited /\ old.approved
                         /\ i = current_idx + 1
                         /\ action' = LblRemove
                /\ (old.edited /\ ~old.approved /\ new.approved) =>
                      /\ i = current_idx + 1
                      /\ Branch(action') \in {"approve", "edit"}

\* C33, amended: there is a fourth state, approved false with edited true.
\* An email enters it only when Remove approval is selected on an email that
\* is approved with edits, and leaves it only by Approve or Edit; edited is
\* set only by Edit, together with approved, and is never cleared.
C33_EditedOutlivesApproval == [][C33_Step]_vars

\* The first of two emails was edited and its approval removed afterwards;
\* the review of the second was completed.
C33_Witness ==
    /\ bpc = "returned"
    /\ Len(all_emails) = 2
    /\ all_emails[1].edited
    /\ ~all_emails[1].approved
    /\ all_emails[2].approved
    /\ used_previous

\* C34: while the operator selects only choices that are offered, the
\* current index is in 0..len(all_emails)-1 in every state of the review.
C34_IndexInRange ==
    Reviewing => current_idx \in 0..(Len(all_emails) - 1)

\* Previous was selected on the second email and Next on the one before the
\* last: the index is at either end of the list of three emails.
C34_Witness ==
    /\ bpc = "loop"
    /\ Len(all_emails) = 3
    /\ \/ current_idx = 0 /\ Branch(action) = "previous"
       \/ current_idx = 2 /\ Branch(action) = "next"

\* C35: in a session in which Previous is never selected the loop over N
\* emails ends after at most N selections: every selection made inside the
\* loop has advanced the index by one, and the one that ended the loop is
\* at most the N-th.
C35_EndsWithinN ==
    (Reviewing /\ ~used_previous) =>
        /\ nactions <= Len(all_emails)
        /\ bpc = "loop" => nactions = current_idx

\* The loop over three emails ended with the third selection, the first of
\* which was Next.
C35_Witness ==
    /\ bpc \in {"gate", "returned"}
    /\ ~used_previous
    /\ Len(all_emails) = 3
    /\ nactions = 3
    /\ all_emails[2].approved
    /\ ~all_emails[1].approved
    /\ ~all_emails[1].edited

\* C36: no company in the list discovery returns satisfies the exclusion
\* predicate (a denylist entry in its name whatever the case, or size
\* large), whether it came from a query variant or from the VC sub-query.
C36_ReturnedNotExcluded ==
    dpc = "returned" =>
        \A i \in 1..Len(discovered) : ~Excluded(discovered[i])

\* C37: saving a note for one lead never makes has_research true (or
\* get_research non-empty) for a lead with a different (company_name,
\* contact_name) pair.
C37_Step ==
    (rpc = "lead" /\ rpc' = "saving") =>
        \A q \in LeadPairs :
            (q # lead /\ LeadKey(q[1], q[2]) \in DOMAIN notes') =>
                LeadKey(q[1], q[2]) \in DOMAIN notes

C37_NoteOnlyForItsLead == [][C37_Step]_vars

\* C38: a call through @cached that failed, by raising or by degrading to an
\* empty list inside the wrapped function, stores nothing in the cache, and
\* the next call with the same arguments reaches the backend again.
C38_OnlySuccessesCached ==
    cfunc \in Decorated =>
        \A i \in 1..Len(clog) :
            clog[i].outcome \in {"raised", "degraded"} =>
                /\ ~clog[i].stored
                /\ (i < Len(clog) /\ clog[i + 1].key = clog[i].key) =>
                      clog[i + 1].requested

\* C39: with the LLM cache enabled, the call of ClaudeClient.chat that a
\* regenerate decision causes (the same prompts and model as the attempt
\* before, which returned a non-empty text) sends no request and returns
\* the text of the attempt before.
C39_RegenerateServedFromCache ==
    cfunc = "ClaudeClient.chat" =>
        \A i \in 1..(Len(clog) - 1) :
            (/\ clog[i + 1].key = clog[i].key
             /\ clog[i].result \notin {"None", ""}) =>
                /\ ~clog[i + 1].requested
                /\ clog[i + 1].result = clog[i].result

PhaseNames == {PhaseName(n) : n \in 1..4} \cup {Unknown}

\* C40: normalize_phase returns one of phase 1, phase 2, phase 3, phase 4
\* and unknown for every input, and every spelling of a phase (arabic or
\* roman number, any case, with or without the space) gives that phase.
C40_PhaseNormalized ==
    npc = "done" =>
        /\ phase_name \in PhaseNames
        /\ \A n \in 1..4 :
              phase_arg.text \in Spellings(n) => phase_name = PhaseName(n)

=============================================================================
